---- MODULE Spec2Model ----
(***************************************************************************)
(* PyLauncher: the process supervisor (core/process_handler.py) driven by  *)
(* the controller on the Tk main thread (app.py), the scheduler's polling  *)
(* thread (core/scheduler.py) and one reader thread per spawned process.   *)
(*                                                                         *)
(* Every lock section of the source is one atomic step.  A blocking call   *)
(* that reads or writes no shared state (Popen, terminate, kill) is taken  *)
(* together with the lock section next to it; a call whose result depends  *)
(* on what other threads and the child do meanwhile (wait, readline) is a  *)
(* step of its own.  The operating system is the environment: a child may  *)
(* exit at any time, Popen may fail, a signal may fail, a bounded wait may *)
(* time out while the child is still alive.                                *)
(*                                                                         *)
(* The controller's own is_running pre-check (app.py:122) is the same test *)
(* as the supervisor's guard (process_handler.py:67-71), taken on the same *)
(* thread with nothing in between that could set an entry to Running, and  *)
(* it changes no supervisor state; it is folded into the guard step.       *)
(***************************************************************************)
EXTENDS Integers, Sequences, FiniteSets, TLC

\* ---------------------------------------------------------------- bounds
MaxInst  == 2      \* child processes spawned in one run
MaxQueue == 1      \* callbacks pending in the Tk "after" queue
MaxPasses == 5     \* polling passes in one run
MaxNaps  == 1      \* times the machine is suspended between two passes
MaxEdits == 2      \* schedule changes and deletions the user makes in one run
MaxCalls == 4      \* calls of Scheduler.start and Scheduler.stop
MaxCount == 12     \* the numbers 1..MaxCount are tried as interval values
MaxTokens == 4     \* day tokens in a weekdays list
MaxLines == 2      \* non-empty lines pip prints in one install
MaxInstalls == 2   \* calls of install_requirements
MaxKeys  == 2      \* keys in a saved session record
MaxLag   == 15     \* seconds a pass may start later than POLL_INTERVAL after the one before

POLL_INTERVAL == 30            \* Scheduler.POLL_INTERVAL
StartTimes == {7 * 3600 + 59 * 60 + 30}    \* the scheduler is started on a Monday at 07:59:30

Keys    == {"a", "b"}          \* folder keys (folder_path.name)
Threads == {"ui", "sched"}     \* Tk main thread, scheduler polling thread
NoKey   == "-"

VARIABLES
    scripts,     \* the installed script folders (ScriptManager.discover_all)
    schedules,   \* Scheduler._schedules: (key, ScheduleEntry) pairs in dict order
    last_fired,  \* Scheduler._last_fired: key -> datetime, Never = no entry
    clock,       \* the wall clock at its latest reading (datetime.now() in _check_all)
    pass,        \* the polling thread: where it is in _poll_loop / _check_all, and its locals
    fired,       \* per key, the trigger callbacks made so far (history, read by the properties)
    edits,       \* schedule changes and deletions the user has made so far
    polling,     \* Scheduler._running: the polling thread is alive
    processes,   \* ProcessHandler._processes: key -> instance index, 0 = no entry
    insts,       \* every RunningProcess created so far, with its OS process and reader thread
    pc,          \* position of each thread
    loc,         \* locals of the call a thread is in: folder_key, rp, origin of the call
    allKeys,     \* stop_all: keys still to be stopped by the for loop
    afterQueue,  \* callbacks scheduled with self.after(0, ...) and not yet run
    stateFile,   \* state.json: whether it exists and its text
    state,       \* the AppState that StateManager.load() last returned, or that it raised
    restoreKeys, \* _restore_previous_session: keys its for loop has still to start
    old,         \* a polling thread that stop() gave up joining: where it is, and its locals
    owner,       \* for each of the two locks, the thread that holds it
    at,          \* for each thread, the method it is in and the operation it has come to
    arg,         \* the string handed to ScheduleEntry.parse
    ret,         \* what ScheduleEntry.parse returned for it
    job,         \* VenvManager._install_worker: where it is and the callbacks it has made
    shown,       \* per key, the running flag of its row (ScriptRow._is_running)
    last         \* what the step just taken did (history, read by the properties only)

vars == <<scripts, schedules, last_fired, clock, pass, fired, edits, polling, processes, insts, pc, loc,
          allKeys, afterQueue, stateFile, state, restoreKeys, old, owner, at, arg, ret, job,
          shown, last>>

\* what only the polling thread and the scheduler's callers write
schedState == <<last_fired, clock, pass, fired, edits>>

\* what only the session-state file's readers and writers write
sessState == <<stateFile, state, restoreKeys>>

\* the locks and who is where with respect to them
lockState == <<owner, at>>

\* a call of ScheduleEntry.parse and a run of the install worker
callState == <<arg, ret, job>>

\* ---------------------------------------------------------------- helpers
\* the calls and callbacks the properties speak of leave a record when they end.
\* op: the call, callback or thread concerned; res: how it ended; inst: the instance concerned;
\* src: who called; left: keys of stop_all's snapshot that were never passed to
\* stop_script, items of load_all's map that left no schedule
NoEvent == [op |-> "none", key |-> NoKey, res |-> "-", inst |-> 0, src |-> "-", left |-> 0]
Event(op, key, res, inst, src) ==
    [op |-> op, key |-> key, res |-> res, inst |-> inst, src |-> src, left |-> 0]
NoCall  == [key |-> NoKey, rp |-> 0, src |-> "-"]

InstIds == 1..Len(insts)

\* RunningProcess(process=process, state=ProcessState.RUNNING), its Popen and its reader Thread
NewInstance(k) ==
    [key |-> k, state |-> "Running", alive |-> TRUE, reader |-> "read", exits |-> 0]

\* is_running(folder_key): rp is not None and rp.state == RUNNING
is_running(k) == IF processes[k] = 0 THEN FALSE ELSE insts[processes[k]].state = "Running"

\* (mutation) the guard never finds the key running
AlwaysSpawn(k) == FALSE

\* start_script's guard: folder_key in self._processes and existing.state == RUNNING
AlreadyRunning(k) == IF processes[k] = 0 THEN FALSE ELSE insts[processes[k]].state = "Running"

\* (mutation) the guard only tests that an entry exists
NothingToStopOnlyIfAbsent(k) == processes[k] = 0

\* stop_script's guard: rp is None or rp.state != RUNNING
NothingToStop(k) == IF processes[k] = 0 THEN TRUE ELSE insts[processes[k]].state # "Running"

\* (mutation) the reader looks its entry up by key when it finishes
ReaderTargetByKey(i) == processes[insts[i].key]

\* the object whose state the reader thread writes: the rp it was created with
ReaderTarget(i) == i

\* dict iteration order of self._processes: keys in order of first insertion
FirstInst(k) ==
    CHOOSE i \in InstIds :
        insts[i].key = k /\ \A j \in InstIds : insts[j].key = k => i <= j

RECURSIVE KeysFrom(_)
KeysFrom(i) ==
    IF i > Len(insts) THEN <<>>
    ELSE (IF FirstInst(insts[i].key) = i THEN <<insts[i].key>> ELSE <<>>) \o KeysFrom(i + 1)

\* (mutation) the state filter is missing: every key of the map is returned
get_all_keys == KeysFrom(1)

\* get_running_keys(): [key for key, rp in self._processes.items() if rp.state == RUNNING]
get_running_keys == SelectSeq(KeysFrom(1), LAMBDA k : insts[processes[k]].state = "Running")

\* a call on thread t ends (returns or raises) and the thread is back in its loop
EndCall(t) ==
    /\ pc' = [pc EXCEPT ![t] = "idle"]
    /\ loc' = [loc EXCEPT ![t] = NoCall]

\* where the thread goes when start_script returns: back to the restore routine's loop, or
\* to the event loop
AfterStart(src) == IF src = "restore" THEN "restore_next" ELSE "idle"

\* where the thread goes when start_script raises: out of _restore_previous_session and of
\* __init__, or back to the event loop, where Tk reports the exception
AfterStartRaised(src) == IF src = "restore" THEN "crashed" ELSE "idle"

\* ---------------------------------------------------------------- ProcessHandler.start_script
\* with self._lock: if existing.state == RUNNING: return folder_key
StartGuard(t, k, src) ==
    /\ IF AlreadyRunning(k)
       THEN /\ EndCall(t)
            /\ last' = Event("start", k, "noop", 0, src)
       ELSE /\ pc' = [pc EXCEPT ![t] = "start_spawn"]
            /\ loc' = [loc EXCEPT ![t] = [key |-> k, rp |-> 0, src |-> src]]
            /\ last' = NoEvent
    /\ UNCHANGED <<old, lockState, callState, shown, sessState, scripts, schedules, polling, processes, insts,
                   allKeys>>

\* subprocess.Popen(...) succeeds; rp = RunningProcess(...); with self._lock:
\* self._processes[folder_key] = rp; reader.start(); return folder_key; back in
\* app.start_script: installed_tab.update_script_state(folder_key, running=True)
PopenOk(t) ==
    /\ pc[t] = "start_spawn"
    /\ Len(insts) < MaxInst
    /\ insts' = Append(insts, NewInstance(loc[t].key))
    /\ processes' = [processes EXCEPT ![loc[t].key] = Len(insts) + 1]
    /\ shown' = [shown EXCEPT ![loc[t].key] = TRUE]
    /\ pc' = [pc EXCEPT ![t] = AfterStart(loc[t].src)]
    /\ loc' = [loc EXCEPT ![t] = NoCall]
    /\ last' = NoEvent
    /\ UNCHANGED <<old, lockState, callState, sessState, scripts, schedules, schedState, polling,
                   allKeys, afterQueue>>

\* (mutation) the entry is written before the spawn is known to have succeeded
PopenFailsRecorded(t) ==
    /\ pc[t] = "start_spawn"
    /\ Len(insts) < MaxInst
    /\ insts' = Append(insts, [NewInstance(loc[t].key) EXCEPT !.alive = FALSE, !.reader = "none"])
    /\ processes' = [processes EXCEPT ![loc[t].key] = Len(insts) + 1]
    /\ EndCall(t)
    /\ last' = Event("start", loc[t].key, "raised", 0, loc[t].src)
    /\ UNCHANGED <<old, lockState, callState, shown, sessState, scripts, schedules, schedState, polling,
                   allKeys, afterQueue>>

\* subprocess.Popen(...) raises (bad interpreter, missing folder): the exception leaves start_script
PopenFails(t) ==
    /\ pc[t] = "start_spawn"
    /\ pc' = [pc EXCEPT ![t] = AfterStartRaised(loc[t].src)]
    /\ loc' = [loc EXCEPT ![t] = NoCall]
    /\ last' = Event("start", loc[t].key, "raised", 0, loc[t].src)
    /\ UNCHANGED <<old, lockState, callState, shown, sessState, scripts, schedules, schedState, polling,
                   processes, insts, allKeys, afterQueue>>

\* ---------------------------------------------------------------- ProcessHandler.stop_script
\* where the thread goes when stop_script returns: back to stop_all's loop, or to the event loop
AfterStop(src) == IF src = "all" THEN "all_next" ELSE "idle"

\* stop_script_by_key, after process_handler.stop_script has returned:
\* installed_tab.update_script_state(folder_key, running=False); stop_all calls
\* process_handler.stop_script itself and touches no row
ShownAfterStop(k, src) == IF src = "all" THEN shown ELSE [shown EXCEPT ![k] = FALSE]

\* with self._lock: if rp is None or rp.state != RUNNING: return
StopNoop(t, k, src) ==
    /\ NothingToStop(k)
    /\ pc' = [pc EXCEPT ![t] = AfterStop(src)]
    /\ loc' = [loc EXCEPT ![t] = NoCall]
    /\ last' = Event("stop", k, "noop", 0, src)
    /\ shown' = ShownAfterStop(k, src)
    /\ UNCHANGED <<old, lockState, callState, sessState, scripts, schedules, schedState, polling,
                   processes, insts, afterQueue>>

\* with self._lock: rp.state = STOPPING; then proc.terminate() returns
StopTerminate(t, k, src) ==
    /\ ~NothingToStop(k)
    /\ insts' = [insts EXCEPT ![processes[k]].state = "Stopping"]
    /\ loc' = [loc EXCEPT ![t] = [key |-> k, rp |-> processes[k], src |-> src]]
    /\ pc' = [pc EXCEPT ![t] = "stop_wait"]
    /\ last' = NoEvent
    /\ UNCHANGED <<old, lockState, callState, shown, sessState, scripts, schedules, schedState, polling,
                   processes, afterQueue>>

\* with self._lock: rp.state = STOPPING; then proc.terminate() raises OSError
\* (the signal could not be delivered): except OSError: pass
StopTerminateOSError(t, k, src) ==
    /\ ~NothingToStop(k)
    /\ insts' = [insts EXCEPT ![processes[k]].state = "Stopping"]
    /\ loc' = [loc EXCEPT ![t] = [key |-> k, rp |-> processes[k], src |-> src]]
    /\ pc' = [pc EXCEPT ![t] = "stop_final"]
    /\ last' = NoEvent
    /\ UNCHANGED <<old, lockState, callState, shown, sessState, scripts, schedules, schedState, polling,
                   processes, afterQueue>>

\* the three ways the first lines of stop_script(k) go
StopBegin(t, k, src) ==
    \/ StopNoop(t, k, src)
    \/ StopTerminate(t, k, src)
    \/ StopTerminateOSError(t, k, src)

\* proc.wait(timeout=3) returns: the child has exited
WaitOk(t) ==
    /\ pc[t] = "stop_wait"
    /\ ~insts[loc[t].rp].alive
    /\ pc' = [pc EXCEPT ![t] = "stop_final"]
    /\ last' = NoEvent
    /\ UNCHANGED <<old, lockState, callState, shown, sessState, scripts, schedules, schedState, polling,
                   processes, insts, loc, allKeys, afterQueue>>

\* proc.wait(timeout=3) raises TimeoutExpired, the child is still alive; proc.kill() returns
WaitTimeoutKill(t) ==
    /\ pc[t] = "stop_wait"
    /\ insts[loc[t].rp].alive
    /\ pc' = [pc EXCEPT ![t] = "stop_wait2"]
    /\ last' = NoEvent
    /\ UNCHANGED <<old, lockState, callState, shown, sessState, scripts, schedules, schedState, polling,
                   processes, insts, loc, allKeys, afterQueue>>

\* proc.wait(timeout=3) raises TimeoutExpired; proc.kill() raises OSError, caught by the outer except
WaitTimeoutKillOSError(t) ==
    /\ pc[t] = "stop_wait"
    /\ insts[loc[t].rp].alive
    /\ pc' = [pc EXCEPT ![t] = "stop_final"]
    /\ last' = NoEvent
    /\ UNCHANGED <<old, lockState, callState, shown, sessState, scripts, schedules, schedState, polling,
                   processes, insts, loc, allKeys, afterQueue>>

\* proc.wait(timeout=5) returns: the child has exited
Wait2Ok(t) ==
    /\ pc[t] = "stop_wait2"
    /\ ~insts[loc[t].rp].alive
    /\ pc' = [pc EXCEPT ![t] = "stop_final"]
    /\ last' = NoEvent
    /\ UNCHANGED <<old, lockState, callState, shown, sessState, scripts, schedules, schedState, polling,
                   processes, insts, loc, allKeys, afterQueue>>

\* proc.wait(timeout=5) raises TimeoutExpired inside the except handler: it is not an OSError,
\* so it leaves stop_script (and stop_all's loop, and _on_exit before self.destroy())
Wait2Timeout(t) ==
    /\ pc[t] = "stop_wait2"
    /\ insts[loc[t].rp].alive
    /\ EndCall(t)
    /\ allKeys' = <<>>
    /\ last' = [Event("stop", loc[t].key, "raised", loc[t].rp, loc[t].src)
                    EXCEPT !.left = Len(allKeys)]
    /\ UNCHANGED <<old, lockState, callState, shown, sessState, scripts, schedules, schedState, polling,
                   processes, insts, afterQueue>>

\* with self._lock: rp.state = STOPPED
StopFinal(t) ==
    /\ pc[t] = "stop_final"
    /\ insts' = [insts EXCEPT ![loc[t].rp].state = "Stopped"]
    /\ pc' = [pc EXCEPT ![t] = AfterStop(loc[t].src)]
    /\ loc' = [loc EXCEPT ![t] = NoCall]
    /\ last' = Event("stop", loc[t].key, "stopped", loc[t].rp, loc[t].src)
    /\ shown' = ShownAfterStop(loc[t].key, loc[t].src)
    /\ UNCHANGED <<old, lockState, callState, sessState, scripts, schedules, schedState, polling,
                   processes, allKeys, afterQueue>>

\* ---------------------------------------------------------------- ProcessHandler._reader_thread
\* readline returned a line while rp.state == STOPPING: break
ReaderBreak(i) ==
    /\ insts[i].reader = "read"
    /\ insts[i].state = "Stopping"
    /\ insts' = [insts EXCEPT ![i].reader = "wait"]
    /\ last' = NoEvent
    /\ UNCHANGED <<old, lockState, callState, shown, sessState, scripts, schedules, schedState, polling,
                   processes, pc, loc, allKeys, afterQueue>>

\* readline returned a line: on_output(folder_key, decoded) returns (the loop goes on)
ReaderLine(i) ==
    /\ insts[i].reader = "read"
    /\ insts[i].state # "Stopping"
    /\ last' = Event("on_output", insts[i].key, "returned", i, "reader")
    /\ UNCHANGED <<old, lockState, callState, shown, sessState, scripts, schedules, schedState, polling,
                   processes, insts, pc, loc, allKeys, afterQueue>>

\* on_output raises OSError or ValueError: except (OSError, ValueError): pass
ReaderLineSwallowed(i) ==
    /\ insts[i].reader = "read"
    /\ insts[i].state # "Stopping"
    /\ insts' = [insts EXCEPT ![i].reader = "wait"]
    /\ last' = NoEvent
    /\ UNCHANGED <<old, lockState, callState, shown, sessState, scripts, schedules, schedState, polling,
                   processes, pc, loc, allKeys, afterQueue>>

\* on_output raises anything else (self.after raises RuntimeError when the main loop is not
\* running): nothing catches it, the thread ends before proc.wait()
ReaderLineRaises(i) ==
    /\ insts[i].reader = "read"
    /\ insts[i].state # "Stopping"
    /\ insts' = [insts EXCEPT ![i].reader = "crashed"]
    /\ last' = NoEvent
    /\ UNCHANGED <<old, lockState, callState, shown, sessState, scripts, schedules, schedState, polling,
                   processes, pc, loc, allKeys, afterQueue>>

\* readline returns b"" (the pipe is closed): the loop ends
ReaderEOF(i) ==
    /\ insts[i].reader = "read"
    /\ insts' = [insts EXCEPT ![i].reader = "wait"]
    /\ last' = NoEvent
    /\ UNCHANGED <<old, lockState, callState, shown, sessState, scripts, schedules, schedState, polling,
                   processes, pc, loc, allKeys, afterQueue>>

\* (mutation) the reader writes STOPPED whatever the state is
ReaderFinalizeAlways(i) ==
    /\ insts[i].reader = "wait"
    /\ ~insts[i].alive
    /\ insts' = [insts EXCEPT ![ReaderTarget(i)].state = "Stopped", ![i].reader = "exit"]
    /\ last' = Event("reader", insts[i].key, "finalized", i, "reader")
    /\ UNCHANGED <<old, lockState, callState, shown, sessState, scripts, schedules, schedState, polling,
                   processes, pc, loc, allKeys, afterQueue>>

\* rc = proc.wait() returns; with self._lock: if rp.state != STOPPING: rp.state = STOPPED
ReaderFinalize(i) ==
    /\ insts[i].reader = "wait"
    /\ ~insts[i].alive
    /\ insts' = [insts EXCEPT
                    ![ReaderTarget(i)].state = IF @ # "Stopping" THEN "Stopped" ELSE @,
                    ![i].reader = "exit"]
    /\ last' = Event("reader", insts[i].key, "finalized", i, "reader")
    /\ UNCHANGED <<old, lockState, callState, shown, sessState, scripts, schedules, schedState, polling,
                   processes, pc, loc, allKeys, afterQueue>>

\* on_exit(folder_key, rc); the thread ends
ReaderOnExit(i) ==
    /\ insts[i].reader = "exit"
    /\ insts' = [insts EXCEPT ![i].exits = @ + 1, ![i].reader = "done"]
    /\ last' = NoEvent
    /\ UNCHANGED <<old, lockState, callState, shown, sessState, scripts, schedules, schedState, polling,
                   processes, pc, loc, allKeys, afterQueue>>

\* ---------------------------------------------------------------- operating system
\* the child exits: by itself, or because of a signal it was sent
ProcExit(i) ==
    /\ insts[i].alive
    /\ insts' = [insts EXCEPT ![i].alive = FALSE]
    /\ last' = NoEvent
    /\ UNCHANGED <<old, lockState, callState, shown, sessState, scripts, schedules, schedState, polling,
                   processes, pc, loc, allKeys, afterQueue>>

\* ---------------------------------------------------------------- ScheduleEntry.parse
\* A str is the sequence of its characters.  The characters below are those the strings of
\* the model are made of; lower() and strip() act on them as Python's do.
UpperToLower ==
    ("A" :> "a") @@ ("B" :> "b") @@ ("C" :> "c") @@ ("D" :> "d") @@ ("E" :> "e") @@
    ("F" :> "f") @@ ("G" :> "g") @@ ("H" :> "h") @@ ("I" :> "i") @@ ("J" :> "j") @@
    ("K" :> "k") @@ ("L" :> "l") @@ ("M" :> "m") @@ ("N" :> "n") @@ ("O" :> "o") @@
    ("P" :> "p") @@ ("Q" :> "q") @@ ("R" :> "r") @@ ("S" :> "s") @@ ("T" :> "t") @@
    ("U" :> "u") @@ ("V" :> "v") @@ ("W" :> "w") @@ ("X" :> "x") @@ ("Y" :> "y") @@
    ("Z" :> "z")

DigitValue ==
    ("0" :> 0) @@ ("1" :> 1) @@ ("2" :> 2) @@ ("3" :> 3) @@ ("4" :> 4) @@
    ("5" :> 5) @@ ("6" :> 6) @@ ("7" :> 7) @@ ("8" :> 8) @@ ("9" :> 9)

Whitespace == {" ", "\t", "\n", "\r", "\f"}

\* F(v), with v evaluated once however often F uses it
Apply(F(_), v) == CHOOSE r \in {F(x) : x \in {v}} : TRUE

\* str.lower()
lower(s) ==
    Apply(LAMBDA x : [i \in 1..Len(x) |->
                         IF x[i] \in DOMAIN UpperToLower THEN UpperToLower[x[i]] ELSE x[i]], s)

\* str.strip()
RECURSIVE lstrip(_)
lstrip(s) ==
    Apply(LAMBDA x : IF x # <<>> /\ Head(x) \in Whitespace THEN lstrip(Tail(x)) ELSE x, s)

RECURSIVE rstrip(_)
rstrip(s) ==
    Apply(LAMBDA x : IF x # <<>> /\ x[Len(x)] \in Whitespace
                     THEN rstrip(SubSeq(x, 1, Len(x) - 1)) ELSE x, s)

strip(s) == rstrip(lstrip(s))

\* str.split(sep) for a one-character sep: the pieces between the separators, empty ones kept
RECURSIVE split(_, _)
split(s, sep) ==
    Apply(LAMBDA x :
              IF \E i \in 1..Len(x) : x[i] = sep
              THEN Apply(LAMBDA i : <<SubSeq(x, 1, i - 1)>> \o split(SubSeq(x, i + 1, Len(x)), sep),
                         CHOOSE i \in 1..Len(x) : x[i] = sep /\ \A j \in 1..(i - 1) : x[j] # sep)
              ELSE <<x>>, s)

\* the number a string of digits and underscores denotes
RECURSIVE DigitsValue(_)
DigitsValue(d) ==
    Apply(LAMBDA x : IF x = <<>> THEN 0
                     ELSE IF x[Len(x)] = "_" THEN DigitsValue(SubSeq(x, 1, Len(x) - 1))
                     ELSE DigitsValue(SubSeq(x, 1, Len(x) - 1)) * 10 + DigitValue[x[Len(x)]], d)

\* the sign and the digits of a stripped string t, as int() reads them
IntOf(t) ==
    LET signed == t # <<>> /\ Head(t) \in {"+", "-"}
    IN  Apply(LAMBDA d :
                  IF /\ d # <<>>
                     /\ \A i \in 1..Len(d) : d[i] \in DOMAIN DigitValue \/ d[i] = "_"
                     /\ d[1] # "_" /\ d[Len(d)] # "_"
                     /\ \A i \in 1..(Len(d) - 1) : ~(d[i] = "_" /\ d[i + 1] = "_")
                  THEN [ok |-> TRUE,
                        val |-> IF signed /\ Head(t) = "-" THEN 0 - DigitsValue(d)
                                ELSE DigitsValue(d)]
                  ELSE [ok |-> FALSE, val |-> 0],
              IF signed THEN Tail(t) ELSE t)

\* int(s): surrounding whitespace is dropped, one sign is allowed, then digits, single
\* underscores allowed between them; anything else raises ValueError (ok = FALSE)
int(s) == Apply(LAMBDA t : IntOf(t), strip(s))

\* ScheduleEntry(): schedule_type OFF, time_of_day None, interval_seconds 0, weekdays []
NoTimeOfDay == <<>>
ScheduleEntry == [schedule_type |-> "OFF", time_of_day |-> NoTimeOfDay,
                  interval_seconds |-> 0, weekdays |-> <<>>]

\* _parse_time(s): h_str, m_str = s.strip().split(":"); return int(h_str), int(m_str)
parse_time(s) ==
    Apply(LAMBDA p :
              IF Len(p) = 2
              THEN Apply(LAMBDA h : Apply(LAMBDA m :
                             IF h.ok /\ m.ok THEN [ok |-> TRUE, val |-> <<h.val, m.val>>]
                             ELSE [ok |-> FALSE, val |-> NoTimeOfDay], int(p[2])), int(p[1]))
              ELSE [ok |-> FALSE, val |-> NoTimeOfDay],
          split(strip(s), ":"))

\* (mutation) a bare number is taken as seconds
IntervalOfBareSeconds(t) ==
    IF t # <<>> /\ t[Len(t)] = "m"
    THEN Apply(LAMBDA n : [ok |-> n.ok, val |-> n.val * 60], int(SubSeq(t, 1, Len(t) - 1)))
    ELSE IF t # <<>> /\ t[Len(t)] = "h"
    THEN Apply(LAMBDA n : [ok |-> n.ok, val |-> n.val * 3600], int(SubSeq(t, 1, Len(t) - 1)))
    ELSE Apply(LAMBDA n : [ok |-> n.ok, val |-> n.val], int(t))

\* the minutes or hours of a lowered, stripped string t
IntervalOf(t) ==
    IF t # <<>> /\ t[Len(t)] = "m"
    THEN Apply(LAMBDA n : [ok |-> n.ok, val |-> n.val * 60], int(SubSeq(t, 1, Len(t) - 1)))
    ELSE IF t # <<>> /\ t[Len(t)] = "h"
    THEN Apply(LAMBDA n : [ok |-> n.ok, val |-> n.val * 3600], int(SubSeq(t, 1, Len(t) - 1)))
    ELSE Apply(LAMBDA n : [ok |-> n.ok, val |-> n.val * 60], int(t))

\* _parse_interval(s): '30m' or '2h' -> seconds, a bare number is minutes
parse_interval(s) == Apply(LAMBDA t : IntervalOf(t), lower(strip(s)))

\* _DAY_MAP
DAY_MAP ==
    (<<"m", "o", "n">> :> 0) @@ (<<"t", "u", "e">> :> 1) @@ (<<"w", "e", "d">> :> 2) @@
    (<<"t", "h", "u">> :> 3) @@ (<<"f", "r", "i">> :> 4) @@ (<<"s", "a", "t">> :> 5) @@
    (<<"s", "u", "n">> :> 6)

\* sorted(set(result)) for a set of weekday indices
RECURSIVE sorted(_)
sorted(S) ==
    IF S = {} THEN <<>>
    ELSE LET m == CHOOSE m \in S : \A x \in S : m <= x
         IN  <<m>> \o sorted(S \ {m})

\* (mutation) the day names are looked up as they are written
parse_weekdays_cased(s) ==
    Apply(LAMBDA p : sorted({DAY_MAP[d] : d \in {strip(p[i]) : i \in 1..Len(p)} \cap DOMAIN DAY_MAP}),
          split(s, ","))

\* _parse_weekdays(s): the known day names among s.lower().split(","), each stripped
parse_weekdays(s) ==
    Apply(LAMBDA p : sorted({DAY_MAP[d] : d \in {strip(p[i]) : i \in 1..Len(p)} \cap DOMAIN DAY_MAP}),
          split(lower(s), ","))

\* the entry for the parts of raw.split("|")
EntryOf(parts) ==
    Apply(LAMBDA stype :
              IF stype = <<"d", "a", "i", "l", "y">> /\ Len(parts) >= 2
              THEN Apply(LAMBDA t : IF t.ok
                                    THEN [ScheduleEntry EXCEPT !.schedule_type = "DAILY",
                                                               !.time_of_day = t.val]
                                    ELSE ScheduleEntry, parse_time(parts[2]))
              ELSE IF stype = <<"i", "n", "t", "e", "r", "v", "a", "l">> /\ Len(parts) >= 2
              THEN Apply(LAMBDA n : IF n.ok
                                    THEN [ScheduleEntry EXCEPT !.schedule_type = "INTERVAL",
                                                               !.interval_seconds = n.val]
                                    ELSE ScheduleEntry, parse_interval(parts[2]))
              ELSE IF stype = <<"w", "e", "e", "k", "d", "a", "y", "s">> /\ Len(parts) >= 3
              THEN Apply(LAMBDA t : IF t.ok
                                    THEN [ScheduleEntry EXCEPT
                                              !.schedule_type = "WEEKDAYS",
                                              !.time_of_day = t.val,
                                              !.weekdays = parse_weekdays(parts[3])]
                                    ELSE ScheduleEntry, parse_time(parts[2]))
              ELSE ScheduleEntry,
          strip(lower(parts[1])))

\* ScheduleEntry.parse(raw)
parse(raw) ==
    Apply(LAMBDA r : IF r = <<>> \/ lower(r) = <<"o", "f", "f">> THEN ScheduleEntry
                     ELSE Apply(LAMBDA parts : EntryOf(parts), split(r, "|")), raw)

\* ---------------------------------------------------------------- json
\* A JSON value is [t, v]: t is its type, v its content as a sequence: the characters of a
\* string, the digits of a number, the items of a list, the (key, value) pairs of an object.
JStr(chars)  == [t |-> "str", v |-> chars]
JList(items) == [t |-> "list", v |-> items]
JEmptyList   == JList(<<>>)

\* "running_scripts"
RUNNING_SCRIPTS ==
    <<"r", "u", "n", "n", "i", "n", "g", "_", "s", "c", "r", "i", "p", "t", "s">>

\* {\n  "running_scripts": 
OPEN_RECORD ==
    <<"{", "\n", " ", " ", "\"", "r", "u", "n", "n", "i", "n", "g", "_", "s", "c", "r",
      "i", "p", "t", "s", "\"", ":", " ">>

\* the concatenation of a sequence of sequences
RECURSIVE Flatten(_)
Flatten(ss) == Apply(LAMBDA x : IF x = <<>> THEN <<>> ELSE Head(x) \o Flatten(Tail(x)), ss)

\* (mutation) a string is written between quotes as it is
escape_none(c) == <<c>>

\* json.dumps writes a character of a string as itself or as its escape sequence
escape(c) ==
    IF c = "\"" THEN <<"\\", "\"">>
    ELSE IF c = "\\" THEN <<"\\", "\\">>
    ELSE IF c = "\n" THEN <<"\\", "n">>
    ELSE IF c = "\t" THEN <<"\\", "t">>
    ELSE IF c = "\r" THEN <<"\\", "r">>
    ELSE <<c>>

\* json.dumps(s) for a str
dumps_str(s) == <<"\"">> \o Flatten([i \in 1..Len(s) |-> escape(s[i])]) \o <<"\"">>

\* json.dumps({"running_scripts": ks}, indent=2) for a list of str
dumps(ks) ==
    OPEN_RECORD \o
    (IF ks = <<>> THEN <<"[", "]">>
     ELSE <<"[", "\n">> \o
          Flatten([i \in 1..Len(ks) |->
                      <<" ", " ", " ", " ">> \o dumps_str(ks[i]) \o
                      (IF i < Len(ks) THEN <<",", "\n">> ELSE <<"\n">>)]) \o
          <<" ", " ", "]">>) \o
    <<"\n", "}">>

\* what a step of the parser returns: whether it succeeded, the value read, where it stopped
JFail == [ok |-> FALSE, val |-> JEmptyList, next |-> 0]
JOk(val, next) == [ok |-> TRUE, val |-> val, next |-> next]

JWhitespace == {" ", "\t", "\n", "\r"}
JDigits == {"0", "1", "2", "3", "4", "5", "6", "7", "8", "9"}

\* the characters a backslash escape stands for (\uXXXX is in no text of the model)
JUnescape ==
    ("\"" :> "\"") @@ ("\\" :> "\\") @@ ("/" :> "/") @@ ("n" :> "\n") @@ ("t" :> "\t") @@
    ("r" :> "\r")

\* the first position from i on that holds no whitespace, Len(x) + 1 if there is none
skip_ws(x, i) ==
    Apply(LAMBDA j :
              IF \E p \in j..Len(x) : x[p] \notin JWhitespace
              THEN CHOOSE p \in j..Len(x) :
                       x[p] \notin JWhitespace /\ \A q \in j..(p - 1) : x[q] \in JWhitespace
              ELSE Len(x) + 1, i)

\* the rest of a string whose opening quote has been read, acc being what was read of it
RECURSIVE scan_string(_, _, _)
scan_string(x, i, acc) ==
    Apply(LAMBDA j : Apply(LAMBDA a :
              IF j > Len(x) THEN JFail
              ELSE IF x[j] = "\"" THEN JOk(JStr(a), j + 1)
              ELSE IF x[j] = "\\"
              THEN IF j + 1 <= Len(x) /\ x[j + 1] \in DOMAIN JUnescape
                   THEN scan_string(x, j + 2, Append(a, JUnescape[x[j + 1]]))
                   ELSE JFail
              ELSE IF x[j] \in {"\n", "\t", "\r"} THEN JFail
              ELSE scan_string(x, j + 1, Append(a, x[j])), acc), i)

\* an integer: an optional minus sign, then 0 or digits that do not begin with 0
scan_number(x, i) ==
    Apply(LAMBDA j :
        Apply(LAMBDA d :
            Apply(LAMBDA e :
                      IF e = d \/ (x[d] = "0" /\ e > d + 1) THEN JFail
                      ELSE JOk([t |-> "num", v |-> SubSeq(x, j, e - 1)], e),
                  IF \E p \in d..Len(x) : x[p] \notin JDigits
                  THEN CHOOSE p \in d..Len(x) :
                           x[p] \notin JDigits /\ \A q \in d..(p - 1) : x[q] \in JDigits
                  ELSE Len(x) + 1),
            IF j <= Len(x) /\ x[j] = "-" THEN j + 1 ELSE j), i)

\* whether the word w stands at position i
word_at(x, i, w) == i + Len(w) - 1 <= Len(x) /\ SubSeq(x, i, i + Len(w) - 1) = w

RECURSIVE scan_value(_, _)
RECURSIVE scan_items(_, _, _)
RECURSIVE scan_pairs(_, _, _)

\* the items of a list after "[" or after a comma, acc being the items read
scan_items(x, i, acc) ==
    Apply(LAMBDA r :
              IF ~r.ok THEN JFail
              ELSE Apply(LAMBDA j :
                             IF j > Len(x) THEN JFail
                             ELSE IF x[j] = "," THEN scan_items(x, j + 1, Append(acc, r.val))
                             ELSE IF x[j] = "]" THEN JOk(JList(Append(acc, r.val)), j + 1)
                             ELSE JFail, skip_ws(x, r.next)),
          scan_value(x, i))

\* the pairs of an object after "{" or after a comma, acc being the pairs read
scan_pairs(x, i, acc) ==
    Apply(LAMBDA j :
        IF j > Len(x) \/ x[j] # "\"" THEN JFail
        ELSE Apply(LAMBDA k :
            IF ~k.ok THEN JFail
            ELSE Apply(LAMBDA c :
                IF c > Len(x) \/ x[c] # ":" THEN JFail
                ELSE Apply(LAMBDA r :
                    IF ~r.ok THEN JFail
                    ELSE Apply(LAMBDA e :
                        IF e > Len(x) THEN JFail
                        ELSE IF x[e] = ","
                        THEN scan_pairs(x, e + 1, Append(acc, <<k.val.v, r.val>>))
                        ELSE IF x[e] = "}"
                        THEN JOk([t |-> "obj", v |-> Append(acc, <<k.val.v, r.val>>)], e + 1)
                        ELSE JFail, skip_ws(x, r.next)),
                    scan_value(x, c + 1)),
                skip_ws(x, k.next)),
            scan_string(x, j + 1, <<>>)),
        skip_ws(x, i))

\* the JSON value that begins at or after position i
scan_value(x, i) ==
    Apply(LAMBDA j :
              IF j > Len(x) THEN JFail
              ELSE IF x[j] = "\"" THEN scan_string(x, j + 1, <<>>)
              ELSE IF x[j] = "[" THEN
                  Apply(LAMBDA e : IF e <= Len(x) /\ x[e] = "]" THEN JOk(JEmptyList, e + 1)
                                   ELSE scan_items(x, e, <<>>), skip_ws(x, j + 1))
              ELSE IF x[j] = "{" THEN
                  Apply(LAMBDA e : IF e <= Len(x) /\ x[e] = "}"
                                   THEN JOk([t |-> "obj", v |-> <<>>], e + 1)
                                   ELSE scan_pairs(x, e, <<>>), skip_ws(x, j + 1))
              ELSE IF x[j] \in JDigits \cup {"-"} THEN scan_number(x, j)
              ELSE IF word_at(x, j, <<"t", "r", "u", "e">>)
              THEN JOk([t |-> "true", v |-> <<>>], j + 4)
              ELSE IF word_at(x, j, <<"f", "a", "l", "s", "e">>)
              THEN JOk([t |-> "false", v |-> <<>>], j + 5)
              ELSE IF word_at(x, j, <<"n", "u", "l", "l">>)
              THEN JOk([t |-> "null", v |-> <<>>], j + 4)
              ELSE JFail, skip_ws(x, i))

\* json.loads(text): one value and nothing but whitespace after it, else JSONDecodeError
loads(text) ==
    Apply(LAMBDA x : Apply(LAMBDA r : IF r.ok /\ skip_ws(x, r.next) = Len(x) + 1 THEN r ELSE JFail,
                           scan_value(x, 1)), text)

\* dict.get(key, default): the value of the last pair with that key
dict_get_default(obj, key, default) ==
    IF \E i \in 1..Len(obj.v) : obj.v[i][1] = key
    THEN obj.v[CHOOSE i \in 1..Len(obj.v) :
                   obj.v[i][1] = key /\ \A j \in (i + 1)..Len(obj.v) : obj.v[j][1] # key][2]
    ELSE default

\* the folder name of a key, as a str
name_of(k) == <<k>>

\* ---------------------------------------------------------------- StateManager
NoFile == [exists |-> FALSE, text |-> <<>>]
File(text) == [exists |-> TRUE, text |-> text]

\* AppState(running_scripts=...), or the exception that left load
AppState(running_scripts) == [raised |-> FALSE, running_scripts |-> running_scripts]
Raised == [raised |-> TRUE, running_scripts |-> JEmptyList]
NoState == AppState(JEmptyList)

\* StateManager.load(): only an object has .get; AttributeError is not among the caught
load(file) ==
    IF ~file.exists THEN AppState(JEmptyList)
    ELSE Apply(LAMBDA data :
                   IF ~data.ok THEN AppState(JEmptyList)
                   ELSE IF data.val.t = "obj"
                   THEN AppState(dict_get_default(data.val, RUNNING_SCRIPTS, JEmptyList))
                   ELSE Raised,
               loads(file.text))

\* StateManager.save(AppState(running_scripts=ks))
save(ks) == File(dumps(ks))

\* StateManager.clear()
clear(file) == NoFile

\* ---------------------------------------------------------------- datetime
\* A datetime is the number of seconds since 00:00:00 of a Monday; these are the fields the
\* scheduler reads.  date(t) stands for (year, month, day): two datetimes agree on all
\* three exactly when they are on the same day.
hour(t)    == (t \div 3600) % 24
minute(t)  == (t \div 60) % 60
date(t)    == t \div 86400
weekday(t) == date(t) % 7

\* self._last_fired.get(folder_key) is None
Never == -1

\* ---------------------------------------------------------------- Scheduler: the two dicts
\* self._schedules is a sequence of (key, entry) items in insertion order
HasSchedule(k) == \E i \in 1..Len(schedules) : schedules[i].key = k

\* d[k] for a key the dict holds
dict_get(d, k) == d[CHOOSE i \in 1..Len(d) : d[i].key = k].val

\* d.pop(k, None)
dict_pop(d, k) == SelectSeq(d, LAMBDA item : item.key # k)

\* d[k] = v: an existing key keeps its place, a new one goes last
dict_set(d, k, v) ==
    IF \E i \in 1..Len(d) : d[i].key = k
    THEN [i \in 1..Len(d) |-> IF d[i].key = k THEN [key |-> k, val |-> v] ELSE d[i]]
    ELSE Append(d, [key |-> k, val |-> v])

\* (mutation) whatever the string parses to is stored
update_schedule_stores_off(s, f, folder_key, raw_schedule) ==
    [schedules |-> dict_set(s, folder_key, parse(raw_schedule)), last_fired |-> f]

\* (mutation) a replaced schedule forgets when it last fired
update_schedule_forgets(s, f, folder_key, raw_schedule) ==
    IF parse(raw_schedule).schedule_type = "OFF"
    THEN [schedules |-> dict_pop(s, folder_key), last_fired |-> [f EXCEPT ![folder_key] = Never]]
    ELSE [schedules |-> dict_set(s, folder_key, parse(raw_schedule)),
          last_fired |-> [f EXCEPT ![folder_key] = Never]]

\* update_schedule(folder_key, raw_schedule) on the dicts s and f: what they are afterwards
update_schedule(s, f, folder_key, raw_schedule) ==
    LET entry == parse(raw_schedule)
    IN  IF entry.schedule_type = "OFF"
        THEN [schedules |-> dict_pop(s, folder_key),
              last_fired |-> [f EXCEPT ![folder_key] = Never]]
        ELSE [schedules |-> dict_set(s, folder_key, entry), last_fired |-> f]

\* for folder_key, raw in schedule_map.items(): self.update_schedule(folder_key, raw)
RECURSIVE update_each(_, _, _)
update_each(s, f, items) ==
    IF items = <<>> THEN [schedules |-> s, last_fired |-> f]
    ELSE LET r == update_schedule(s, f, Head(items).key, Head(items).val)
         IN  update_each(r.schedules, r.last_fired, Tail(items))

\* (mutation) load_all adds to what is there
load_all_keeps(s, f, schedule_map) == update_each(s, f, schedule_map)

\* load_all(schedule_map) on the dicts s and f: both cleared, then one update_schedule per
\* item
load_all(s, f, schedule_map) == update_each(<<>>, [k \in Keys |-> Never], schedule_map)

\* ---------------------------------------------------------------- Scheduler._should_fire
\* (mutation) a missed minute is caught up at the next check of the day
check_time_trigger_late(time_of_day, now, last_fired_) ==
    IF time_of_day = NoTimeOfDay THEN FALSE
    ELSE IF hour(now) * 60 + minute(now) < time_of_day[1] * 60 + time_of_day[2] THEN FALSE
    ELSE IF last_fired_ = Never THEN TRUE
    ELSE date(last_fired_) # date(now)

\* _check_time_trigger(time_of_day, now, last_fired)
check_time_trigger(time_of_day, now, last_fired_) ==
    IF time_of_day = NoTimeOfDay THEN FALSE
    ELSE IF hour(now) # time_of_day[1] \/ minute(now) # time_of_day[2] THEN FALSE
    ELSE IF last_fired_ = Never THEN TRUE
    ELSE ~(/\ date(last_fired_) = date(now)
           /\ hour(last_fired_) = hour(now)
           /\ minute(last_fired_) = minute(now))

\* (mutation) the weekday list is not consulted
should_fire_any_day(folder_key, entry, now) ==
    IF entry.schedule_type \in {"DAILY", "WEEKDAYS"}
    THEN check_time_trigger(entry.time_of_day, now, last_fired[folder_key])
    ELSE IF entry.schedule_type = "INTERVAL"
    THEN last_fired[folder_key] = Never \/ now - last_fired[folder_key] >= entry.interval_seconds
    ELSE FALSE

\* (mutation) the interval is taken as minutes where seconds have elapsed
should_fire_minutes(folder_key, entry, now) ==
    IF entry.schedule_type = "DAILY"
    THEN check_time_trigger(entry.time_of_day, now, last_fired[folder_key])
    ELSE IF entry.schedule_type = "INTERVAL"
    THEN \/ last_fired[folder_key] = Never
         \/ now - last_fired[folder_key] >= entry.interval_seconds \div 60
    ELSE IF entry.schedule_type = "WEEKDAYS"
    THEN /\ \E i \in 1..Len(entry.weekdays) : entry.weekdays[i] = weekday(now)
         /\ check_time_trigger(entry.time_of_day, now, last_fired[folder_key])
    ELSE FALSE

\* _should_fire(folder_key, entry, now), last being self._last_fired.get(folder_key)
should_fire(folder_key, entry, now) ==
    LET last_ == last_fired[folder_key]
    IN  IF entry.schedule_type = "DAILY"
        THEN check_time_trigger(entry.time_of_day, now, last_)
        ELSE IF entry.schedule_type = "INTERVAL"
        THEN IF last_ = Never THEN TRUE ELSE now - last_ >= entry.interval_seconds
        ELSE IF entry.schedule_type = "WEEKDAYS"
        THEN IF \A i \in 1..Len(entry.weekdays) : entry.weekdays[i] # weekday(now)
             THEN FALSE
             ELSE check_time_trigger(entry.time_of_day, now, last_)
        ELSE FALSE

\* ---------------------------------------------------------------- Scheduler._check_all
\* (mutation) the trigger callback calls start_script on the polling thread itself
on_trigger_inline(k) ==
    /\ StartGuard("sched", k, "trigger")
    /\ UNCHANGED afterQueue

\* on_trigger = lambda key: self.after(0, lambda: self._on_scheduled_trigger(key))
on_trigger(k) ==
    /\ afterQueue' = Append(afterQueue, [ev |-> "trigger", key |-> k])
    /\ last' = NoEvent
    /\ UNCHANGED <<old, lockState, callState, shown, sessState, scripts, schedules, polling, processes, insts,
                   pc, loc, allKeys>>

\* _should_fire(...) holds for folder_key (the clock is the environment's), is_running is
\* false, last_fired is set and the trigger callback is called
SchedTrigger(k) ==
    /\ polling
    /\ pc["sched"] = "idle"
    /\ HasSchedule(k)
    /\ ~is_running(k)
    /\ Len(afterQueue) < MaxQueue
    /\ last_fired' = [last_fired EXCEPT ![k] = clock]
    /\ on_trigger(k)
    /\ UNCHANGED <<old, lockState, callState, shown, sessState, clock, pass, fired, edits>>

\* ---------------------------------------------------------------- Scheduler._poll_loop
\* the polling thread before its first pass, and between two passes (in the sleep loop)
Asleep ==
    [pc |-> "sleep", now |-> Never, entries |-> <<>>, n |-> 0, lagged |-> FALSE, naps |-> 0,
     errs |-> 0]

\* a polling thread that has returned from _poll_loop, or was never started
NoThread == [Asleep EXCEPT !.pc = "exited"]

\* ScheduleEntry.parse not called yet
NoRet == [schedule_type |-> "-"]

\* no install worker started
NoJob ==
    [pc |-> "none", path |-> "-", outs |-> 0, dones |-> 0, result |-> "-", late |-> FALSE,
     lines |-> 0, calls |-> 0]

\* no trigger callback made yet for a key
NotFired == [n |-> 0, first |-> Never, prev |-> Never]

\* while self._running: self._check_all(): now = datetime.now();
\* with self._lock: entries = dict(self._schedules).
\* The first pass starts with the thread, every later one after 60 sleeps of 0.5 s.
PassBegin ==
    /\ polling
    /\ pass.pc = "sleep"
    /\ pass.n < MaxPasses
    /\ clock' = IF pass.n = 0 THEN clock ELSE clock + POLL_INTERVAL
    /\ pass' = [pass EXCEPT !.pc = "check", !.now = clock', !.entries = schedules,
                            !.n = @ + 1, !.lagged = FALSE]
    /\ last' = NoEvent
    /\ UNCHANGED <<old, lockState, callState, shown, sessState, scripts, edits, schedules, last_fired, fired,
                   polling, processes, insts, pc, loc, allKeys, afterQueue>>

\* the pass and the sleeps took longer than POLL_INTERVAL: time.sleep(0.5) returns late
Lag ==
    /\ pass.pc = "sleep"
    /\ pass.n > 0
    /\ ~pass.lagged
    /\ clock' = clock + MaxLag
    /\ pass' = [pass EXCEPT !.lagged = TRUE]
    /\ last' = NoEvent
    /\ UNCHANGED <<old, lockState, callState, shown, sessState, scripts, edits, schedules, last_fired, fired,
                   polling, processes, insts, pc, loc, allKeys, afterQueue>>

\* the machine is suspended while the thread sleeps: for a minute, or until the next day
Nap ==
    /\ pass.pc = "sleep"
    /\ pass.n > 0
    /\ pass.naps < MaxNaps
    /\ \E d \in {2 * POLL_INTERVAL, 86400 - POLL_INTERVAL} : clock' = clock + d
    /\ pass' = [pass EXCEPT !.naps = @ + 1]
    /\ last' = NoEvent
    /\ UNCHANGED <<old, lockState, callState, shown, sessState, scripts, edits, schedules, last_fired, fired,
                   polling, processes, insts, pc, loc, allKeys, afterQueue>>

\* (mutation) the pass does not ask whether the script is running
PassFiresBusy(folder_key, entry) == should_fire(folder_key, entry, pass.now)

\* if self._should_fire(folder_key, entry, now): if not self._is_running(folder_key):
PassFires(folder_key, entry) ==
    should_fire(folder_key, entry, pass.now) /\ ~is_running(folder_key)

\* for folder_key, entry in entries.items(): the two tests for the next item
PassCheck ==
    /\ pass.pc = "check"
    /\ pass.entries # <<>>
    /\ pass' = IF PassFires(Head(pass.entries).key, Head(pass.entries).val)
               THEN [pass EXCEPT !.pc = "record"]
               ELSE [pass EXCEPT !.entries = Tail(@)]
    /\ last' = NoEvent
    /\ UNCHANGED <<old, lockState, callState, shown, sessState, scripts, edits, schedules, last_fired, clock,
                   fired, polling, processes, insts, pc, loc, allKeys, afterQueue>>

\* (mutation) last_fired is left as it is
PassRecordNothing ==
    /\ pass.pc = "record"
    /\ pass' = [pass EXCEPT !.pc = "trigger"]
    /\ last' = NoEvent
    /\ UNCHANGED <<old, lockState, callState, shown, sessState, scripts, edits, schedules, last_fired, clock,
                   fired, polling, processes, insts, pc, loc, allKeys, afterQueue>>

\* with self._lock: self._last_fired[folder_key] = now
PassRecord ==
    /\ pass.pc = "record"
    /\ last_fired' = [last_fired EXCEPT ![Head(pass.entries).key] = pass.now]
    /\ pass' = [pass EXCEPT !.pc = "trigger"]
    /\ last' = NoEvent
    /\ UNCHANGED <<old, lockState, callState, shown, sessState, scripts, edits, schedules, clock, fired,
                   polling, processes, insts, pc, loc, allKeys, afterQueue>>

\* self._on_trigger(folder_key), and on to the next item
PassTrigger ==
    /\ pass.pc = "trigger"
    /\ Len(afterQueue) < MaxQueue
    /\ on_trigger(Head(pass.entries).key)
    /\ fired' = [fired EXCEPT ![Head(pass.entries).key] =
                    [n     |-> @.n + 1,
                     first |-> IF @.n = 0 THEN pass.now ELSE @.first,
                     prev  |-> pass.now]]
    /\ pass' = [pass EXCEPT !.pc = "check", !.entries = Tail(@)]
    /\ UNCHANGED <<old, lockState, callState, shown, sessState, last_fired, clock, edits>>

\* the for loop is over: _check_all returns, the thread sleeps
PassEnd ==
    /\ pass.pc = "check"
    /\ pass.entries = <<>>
    /\ pass' = [pass EXCEPT !.pc = "sleep"]
    /\ last' = NoEvent
    /\ UNCHANGED <<old, lockState, callState, shown, sessState, scripts, edits, schedules, last_fired, clock,
                   fired, polling, processes, insts, pc, loc, allKeys, afterQueue>>

\* ---------------------------------------------------------------- Scheduler._poll_loop: except
\* the keys for which a callable handed to the Scheduler may raise
BadKeys == {"a"}

\* self._is_running(folder_key) raises: _check_all is left at line 159, before _last_fired
\* is written and with the rest of entries not looked at; _poll_loop's except takes over
PassCheckRaises ==
    /\ pass.pc = "check"
    /\ pass.entries # <<>>
    /\ Head(pass.entries).key \in BadKeys
    /\ should_fire(Head(pass.entries).key, Head(pass.entries).val, pass.now)
    /\ pass' = [pass EXCEPT !.pc = "log", !.entries = <<>>, !.errs = @ + 1]
    /\ last' = Event("is_running", Head(pass.entries).key, "raised", 0, "sched")
    /\ UNCHANGED <<old, lockState, callState, shown, sessState, scripts, edits, schedules, last_fired, clock,
                   fired, polling, processes, insts, pc, loc, allKeys, afterQueue>>

\* self._on_trigger(folder_key) raises: _last_fired was written, the rest of entries is
\* not looked at
PassTriggerRaises ==
    /\ pass.pc = "trigger"
    /\ Head(pass.entries).key \in BadKeys
    /\ pass' = [pass EXCEPT !.pc = "log", !.entries = <<>>, !.errs = @ + 1]
    /\ last' = Event("on_trigger", Head(pass.entries).key, "raised", 0, "sched")
    /\ UNCHANGED <<old, lockState, callState, shown, sessState, scripts, edits, schedules, last_fired, clock,
                   fired, polling, processes, insts, pc, loc, allKeys, afterQueue>>

\* (mutation) an exception of the log callback leaves _poll_loop
PassLogFatal(raises) ==
    /\ pass.pc = "log"
    /\ pass' = [pass EXCEPT !.pc = IF raises THEN "exited" ELSE "sleep"]
    /\ last' = Event("on_log", NoKey, IF raises THEN "raised" ELSE "returned", 0, "sched")
    /\ UNCHANGED <<old, lockState, callState, shown, sessState, scripts, edits, schedules, last_fired, clock,
                   fired, polling, processes, insts, pc, loc, allKeys, afterQueue>>

\* except Exception as e: try: self._on_log(...) except Exception: pass; then the sleeps
PassLog(raises) ==
    /\ pass.pc = "log"
    /\ pass' = [pass EXCEPT !.pc = "sleep"]
    /\ last' = Event("on_log", NoKey, IF raises THEN "raised" ELSE "returned", 0, "sched")
    /\ UNCHANGED <<old, lockState, callState, shown, sessState, scripts, edits, schedules, last_fired, clock,
                   fired, polling, processes, insts, pc, loc, allKeys, afterQueue>>

\* the except block, whatever the log callback does
PassExcept == \E raises \in BOOLEAN : PassLog(raises)

\* ---------------------------------------------------------------- Scheduler.start / stop
\* self._thread.join(timeout=5)
JOIN_TIMEOUT == 5

\* the polling thread r has not returned from _poll_loop
Alive(r) == r.pc # "exited"

\* r is inside _check_all, in the is_running check or in the trigger callback
InPass(r) == r.pc \in {"check", "record", "trigger"}

LifeFrame ==
    UNCHANGED <<lockState, callState, shown, sessState, scripts, schedules, last_fired, fired, processes, insts,
                loc, allKeys, afterQueue>>

\* Scheduler.start(): if self._running: return; else the flag is set and a new thread is
\* started. _thread is not None exactly while _running is set or stop() is in join, so a
\* thread that a timed-out join left behind is not known to start(): it is kept here as
\* old. (At most one such thread is followed.)
ApiStart ==
    /\ pc["ui"] = "idle"
    /\ edits < MaxCalls
    /\ edits' = edits + 1
    /\ IF polling
       THEN /\ last' = Event("start", NoKey, "noop", 0, "api")
            /\ UNCHANGED <<polling, pass, old>>
       ELSE /\ Alive(pass) => ~Alive(old)
            /\ polling' = TRUE
            /\ pass' = Asleep
            /\ old' = IF Alive(pass) THEN pass ELSE old
            /\ last' = Event("start", NoKey, "started", 0, "api")
    /\ UNCHANGED <<pc, clock>>
    /\ LifeFrame

\* Scheduler.stop(): self._running = False; if self._thread is not None: join
ApiStop ==
    /\ pc["ui"] = "idle"
    /\ edits < MaxCalls
    /\ edits' = edits + 1
    /\ polling' = FALSE
    /\ IF polling
       THEN /\ pc' = [pc EXCEPT !["ui"] = "joining"]
            /\ last' = NoEvent
       ELSE /\ last' = Event("stop", NoKey, "noop", 0, "api")
            /\ UNCHANGED pc
    /\ UNCHANGED <<pass, old, clock>>
    /\ LifeFrame

\* join returns because the thread has ended; self._thread = None
JoinOk ==
    /\ pc["ui"] = "joining"
    /\ ~Alive(pass)
    /\ pc' = [pc EXCEPT !["ui"] = "idle"]
    /\ last' = Event("stop", NoKey, "joined", 0, "api")
    /\ UNCHANGED <<polling, pass, old, clock, edits>>
    /\ LifeFrame

\* join returns after 5 seconds: the thread is still inside a pass, in an is_running
\* check or a trigger callback that takes longer; self._thread = None
JoinTimeout ==
    /\ pc["ui"] = "joining"
    /\ InPass(pass)
    /\ pc' = [pc EXCEPT !["ui"] = "idle"]
    /\ clock' = clock + JOIN_TIMEOUT
    /\ last' = Event("stop", NoKey, "timeout", 0, "api")
    /\ UNCHANGED <<polling, pass, old, edits>>
    /\ LifeFrame

\* if not self._running: return, in the sleep loop (and the while test after it)
PassExit ==
    /\ pass.pc = "sleep"
    /\ ~polling
    /\ pass' = [pass EXCEPT !.pc = "exited"]
    /\ last' = NoEvent
    /\ UNCHANGED <<polling, old, clock, edits, pc>>
    /\ LifeFrame

\* the thread left behind goes on through its pass: the same code, its own locals
OldCheck ==
    /\ old.pc = "check"
    /\ old.entries # <<>>
    /\ old' = IF /\ should_fire(Head(old.entries).key, Head(old.entries).val, old.now)
                 /\ ~is_running(Head(old.entries).key)
              THEN [old EXCEPT !.pc = "record"]
              ELSE [old EXCEPT !.entries = Tail(@)]
    /\ last' = NoEvent
    /\ UNCHANGED <<lockState, callState, shown, sessState, scripts, edits, schedules, last_fired, clock, fired,
                   polling, processes, insts, pc, loc, allKeys, afterQueue, pass>>

OldRecord ==
    /\ old.pc = "record"
    /\ last_fired' = [last_fired EXCEPT ![Head(old.entries).key] = old.now]
    /\ old' = [old EXCEPT !.pc = "trigger"]
    /\ last' = NoEvent
    /\ UNCHANGED <<lockState, callState, shown, sessState, scripts, edits, schedules, clock, fired, polling,
                   processes, insts, pc, loc, allKeys, afterQueue, pass>>

OldTrigger ==
    /\ old.pc = "trigger"
    /\ Len(afterQueue) < MaxQueue
    /\ afterQueue' = Append(afterQueue, [ev |-> "trigger", key |-> Head(old.entries).key])
    /\ fired' = [fired EXCEPT ![Head(old.entries).key] =
                    [n     |-> @.n + 1,
                     first |-> IF @.n = 0 THEN old.now ELSE @.first,
                     prev  |-> old.now]]
    /\ old' = [old EXCEPT !.pc = "check", !.entries = Tail(@)]
    /\ last' = Event("on_trigger", Head(old.entries).key, "returned", 0, "old")
    /\ UNCHANGED <<lockState, callState, shown, sessState, scripts, edits, schedules, last_fired, clock, polling,
                   processes, insts, pc, loc, allKeys, pass>>

OldEnd ==
    /\ old.pc = "check"
    /\ old.entries = <<>>
    /\ old' = [old EXCEPT !.pc = "sleep"]
    /\ last' = NoEvent
    /\ UNCHANGED <<lockState, callState, shown, sessState, scripts, edits, schedules, last_fired, clock, fired,
                   polling, processes, insts, pc, loc, allKeys, afterQueue, pass>>

\* in its sleeps the thread left behind reads the flag: it returns if the flag is down
OldExit ==
    /\ old.pc = "sleep"
    /\ ~polling
    /\ old' = [old EXCEPT !.pc = "exited"]
    /\ last' = NoEvent
    /\ UNCHANGED <<lockState, callState, shown, sessState, scripts, edits, schedules, last_fired, clock, fired,
                   polling, processes, insts, pc, loc, allKeys, afterQueue, pass>>

\* and makes its next pass if start() has raised the flag again
OldBegin ==
    /\ old.pc = "sleep"
    /\ polling
    /\ old.n < MaxPasses
    /\ old' = [old EXCEPT !.pc = "check", !.now = clock, !.entries = schedules, !.n = @ + 1]
    /\ last' = NoEvent
    /\ UNCHANGED <<lockState, callState, shown, sessState, scripts, edits, schedules, last_fired, clock, fired,
                   polling, processes, insts, pc, loc, allKeys, afterQueue, pass>>


\* ---------------------------------------------------------------- controller (Tk main thread)
\* a user command: app.start_script(script_info)
UiStart(k) ==
    /\ pc["ui"] = "idle"
    /\ k \in scripts
    /\ StartGuard("ui", k, "user")
    /\ UNCHANGED <<old, lockState, callState, shown, sessState, afterQueue, schedState>>

\* the main loop runs a callback queued by the scheduler: _on_scheduled_trigger -> start_script
UiTrigger ==
    /\ pc["ui"] = "idle"
    /\ afterQueue # <<>>
    /\ Head(afterQueue).ev = "trigger"
    /\ afterQueue' = Tail(afterQueue)
    /\ IF Head(afterQueue).key \in scripts
       THEN StartGuard("ui", Head(afterQueue).key, "trigger")
       ELSE \* "Script not found, skipping."
            /\ last' = NoEvent
            /\ UNCHANGED <<old, lockState, callState, shown, sessState, scripts, schedules, polling,
                           processes, insts, pc, loc, allKeys>>
    /\ UNCHANGED schedState

\* a user command: app.stop_script / stop_script_by_key
UiStop(k) ==
    /\ pc["ui"] = "idle"
    /\ k \in scripts
    /\ StopBegin("ui", k, "user")
    /\ UNCHANGED allKeys

\* (mutation) _on_exit without `if running_keys:`: the record is written even when empty
UiExitAlwaysSaves ==
    /\ pc["ui"] = "idle"
    /\ stateFile' = save([i \in 1..Len(get_running_keys) |-> name_of(get_running_keys[i])])
    /\ polling' = FALSE
    /\ allKeys' = get_running_keys
    /\ pc' = [pc EXCEPT !["ui"] = "all_next"]
    /\ last' = NoEvent
    /\ UNCHANGED <<old, lockState, callState, shown, state, restoreKeys, scripts, schedules, schedState,
                   processes, insts, loc, afterQueue>>

\* _on_exit: running_keys = get_running_keys(); if running_keys: save(AppState(running_keys));
\* self._scheduler.stop(); shutdown() -> stop_all(): keys = self.get_running_keys()
UiExit ==
    /\ pc["ui"] = "idle"
    /\ stateFile' = IF get_running_keys # <<>>
                    THEN save([i \in 1..Len(get_running_keys) |-> name_of(get_running_keys[i])])
                    ELSE stateFile
    /\ polling' = FALSE
    /\ allKeys' = get_running_keys
    /\ pc' = [pc EXCEPT !["ui"] = "all_next"]
    /\ last' = NoEvent
    /\ UNCHANGED <<old, lockState, callState, shown, state, restoreKeys, scripts, schedules, schedState,
                   processes, insts, loc, afterQueue>>

\* for key in keys: self.stop_script(key)
AllNext ==
    /\ pc["ui"] = "all_next"
    /\ allKeys # <<>>
    /\ allKeys' = Tail(allKeys)
    /\ StopBegin("ui", Head(allKeys), "all")

\* the loop is over: stop_all returns, _on_exit goes on to self.destroy()
AllDone ==
    /\ pc["ui"] = "all_next"
    /\ allKeys = <<>>
    /\ pc' = [pc EXCEPT !["ui"] = "destroyed"]
    /\ last' = Event("stop_all", NoKey, "returned", 0, "all")
    /\ UNCHANGED <<old, lockState, callState, shown, sessState, scripts, schedules, schedState, polling,
                   processes, insts, loc, allKeys, afterQueue>>

\* ---------------------------------------------------------------- controller: session restore
\* bool(x) for a JSON value
truthy(x) ==
    IF x.t \in {"null", "false"} THEN FALSE
    ELSE IF x.t = "true" THEN TRUE
    ELSE IF x.t = "num" THEN \E i \in 1..Len(x.v) : x.v[i] \notin {"0", "-"}
    ELSE x.v # <<>>

\* the str items that ", ".join(x) and for key in x go through; ok is FALSE where join
\* raises TypeError
iterate(x) ==
    IF x.t = "list"
    THEN [ok |-> \A i \in 1..Len(x.v) : x.v[i].t = "str", items |-> [i \in 1..Len(x.v) |-> x.v[i].v]]
    ELSE IF x.t = "str" THEN [ok |-> TRUE, items |-> [i \in 1..Len(x.v) |-> <<x.v[i]>>]]
    ELSE IF x.t = "obj" THEN [ok |-> TRUE, items |-> [i \in 1..Len(x.v) |-> x.v[i][1]]]
    ELSE [ok |-> FALSE, items |-> <<>>]

\* state = self._state_manager.load(); if not state.running_scripts: return;
\* names = ", ".join(state.running_scripts)
RestoreLoad ==
    /\ pc["ui"] = "restore"
    /\ state' = load(stateFile)
    /\ IF state'.raised
       THEN /\ pc' = [pc EXCEPT !["ui"] = "crashed"]
            /\ restoreKeys' = <<>>
            /\ last' = Event("restore", NoKey, "raised", 0, "init")
       ELSE IF ~truthy(state'.running_scripts)
       THEN /\ pc' = [pc EXCEPT !["ui"] = "idle"]
            /\ restoreKeys' = <<>>
            /\ last' = Event("restore", NoKey, "nothing", 0, "init")
       ELSE IF ~iterate(state'.running_scripts).ok
       THEN /\ pc' = [pc EXCEPT !["ui"] = "crashed"]
            /\ restoreKeys' = <<>>
            /\ last' = Event("restore", NoKey, "raised", 0, "init")
       ELSE /\ pc' = [pc EXCEPT !["ui"] = "ask"]
            /\ restoreKeys' = iterate(state'.running_scripts).items
            /\ last' = NoEvent
    /\ UNCHANGED <<old, lockState, callState, shown, scripts, schedules, schedState, polling, processes,
                   insts, loc, allKeys, afterQueue, stateFile>>

\* result = messagebox.askyesno(...) is False: self._state_manager.clear()
RestoreDeclined ==
    /\ stateFile' = clear(stateFile)
    /\ pc' = [pc EXCEPT !["ui"] = "idle"]

\* result = messagebox.askyesno(...): the user's answer
RestoreAsk(result) ==
    /\ pc["ui"] = "ask"
    /\ IF result
       THEN /\ pc' = [pc EXCEPT !["ui"] = "restore_next"]
            /\ last' = NoEvent
            /\ UNCHANGED <<stateFile, restoreKeys>>
       ELSE /\ RestoreDeclined
            /\ restoreKeys' = <<>>
            /\ last' = Event("restore", NoKey, "declined", 0, "init")
    /\ UNCHANGED <<old, lockState, callState, shown, scripts, schedules, schedState, polling, processes,
                   insts, loc, allKeys, afterQueue, state>>

\* for key in state.running_scripts: if key in script_map: self.start_script(script_map[key])
RestoreNext ==
    /\ pc["ui"] = "restore_next"
    /\ restoreKeys # <<>>
    /\ restoreKeys' = Tail(restoreKeys)
    /\ IF \E k \in scripts : name_of(k) = Head(restoreKeys) /\ ~is_running(k)
       THEN /\ pc' = [pc EXCEPT !["ui"] = "start_spawn"]
            /\ loc' = [loc EXCEPT !["ui"] =
                          [key |-> CHOOSE k \in scripts : name_of(k) = Head(restoreKeys),
                           rp |-> 0, src |-> "restore"]]
       ELSE UNCHANGED <<pc, loc>>
    /\ last' = NoEvent
    /\ UNCHANGED <<old, lockState, callState, shown, scripts, schedules, schedState, polling, processes,
                   insts, allKeys, afterQueue, stateFile, state>>

\* the loop is over: self._state_manager.clear()
RestoreClear ==
    /\ pc["ui"] = "restore_next"
    /\ restoreKeys = <<>>
    /\ stateFile' = clear(stateFile)
    /\ pc' = [pc EXCEPT !["ui"] = "idle"]
    /\ last' = Event("restore", NoKey, "returned", 0, "init")
    /\ UNCHANGED <<old, lockState, callState, shown, scripts, schedules, schedState, polling, processes,
                   insts, loc, allKeys, afterQueue, state, restoreKeys>>

\* ---------------------------------------------------------------- StateManager, taken alone
\* folder names a session record may list
SessionNames == {<<"b">>, <<"a", "\"">>, <<"\\", "b">>}

\* the lists of at most MaxKeys names
KeyLists == UNION {[1..n -> SessionNames] : n \in 0..MaxKeys}

\* what state.json may hold when it is read: nothing, the empty text, text that is not
\* JSON, a list, a string, a number, null, an object without the field, a record
FileTexts ==
    { <<>>,
      <<"{">>,
      <<"[", "]">>,
      <<"[", "1", ",", " ", "2", "]">>,
      <<"\"", "a", "\"">>,
      <<"7">>,
      <<"n", "u", "l", "l">>,
      <<"{", "}">>,
      <<"{", "\"", "r", "u", "n", "n", "i", "n", "g", "_", "s", "c", "r", "i", "p",
            "t", "s", "\"", ":", " ", "[", "\"", "a", "\"", "]", ",", " ", "\"", "x",
            "\"", ":", " ", "1", "}">> }

\* state = self._state_manager.load()
SmLoad ==
    /\ pc["ui"] = "idle"
    /\ state' = load(stateFile)
    /\ last' = Event("load", NoKey, IF state'.raised THEN "raised" ELSE "returned", 0, "state")
    /\ UNCHANGED <<old, lockState, callState, shown, scripts, schedules, schedState, polling, processes,
                   insts, pc, loc, allKeys, afterQueue, stateFile, restoreKeys>>

\* self._state_manager.save(AppState(running_scripts=ks))
SmSave(ks) ==
    /\ pc["ui"] = "idle"
    /\ stateFile' = save(ks)
    /\ last' = Event("save", NoKey, "returned", 0, "state")
    /\ UNCHANGED <<old, lockState, callState, shown, scripts, schedules, schedState, polling, processes,
                   insts, pc, loc, allKeys, afterQueue, state, restoreKeys>>

\* self._state_manager.clear()
SmClear ==
    /\ pc["ui"] = "idle"
    /\ stateFile' = clear(stateFile)
    /\ last' = Event("clear", NoKey, IF stateFile.exists THEN "removed" ELSE "noop", 0, "state")
    /\ UNCHANGED <<old, lockState, callState, shown, scripts, schedules, schedState, polling, processes,
                   insts, pc, loc, allKeys, afterQueue, state, restoreKeys>>

\* ---------------------------------------------------------------- controller: the schedules
\* the schedule strings of the model
RawOff      == <<"o", "f", "f">>
RawDaily    == <<"d", "a", "i", "l", "y", "|", "0", "8", ":", "0", "0">>
RawInterval == <<"i", "n", "t", "e", "r", "v", "a", "l", "|", "1", "m">>
RawWeekdays == <<"w", "e", "e", "k", "d", "a", "y", "s", "|", "0", "8", ":", "0", "0", "|",
                 "m", "o", "n">>
RawBroken   == <<"d", "a", "i", "l", "y", "|", "8">>

RawZero     == <<"i", "n", "t", "e", "r", "v", "a", "l", "|", "0">>
RawNegative == <<"i", "n", "t", "e", "r", "v", "a", "l", "|", "-", "5", "m">>
RawNoDays   == <<"w", "e", "e", "k", "d", "a", "y", "s", "|", "0", "8", ":", "0", "0", "|",
                 "x", "y", "z">>

\* a metadata file is text anyone can write: schedules no dialog would have built
FileRaws == {RawDaily, RawInterval, RawWeekdays, RawBroken, RawZero, RawNegative, RawNoDays}

\* what a script's metadata file may hold as its schedule
MetaRaws == {RawOff, RawDaily, RawBroken}

\* what ScheduleDialog._build_schedule_string hands to on_save
DialogRaws == {RawOff, RawDaily, RawInterval}

\* ScriptMeta.has_schedule: bool(self.schedule) and self.schedule.lower() != "off"
has_schedule(raw) == raw # <<>> /\ lower(raw) # <<"o", "f", "f">>

\* discover_all() lists the folders in name order
RECURSIVE discover_all(_)
discover_all(S) ==
    IF S = {} THEN <<>>
    ELSE LET k == CHOOSE k \in S : \A x \in S : k = x \/ (k = "a" /\ x = "b")
         IN  <<k>> \o discover_all(S \ {k})

\* schedule_map = {s.folder_path.name: s.meta.schedule for s in scripts if s.meta.has_schedule}
schedule_map(meta) ==
    LET all == [i \in 1..Len(discover_all(scripts)) |->
                   [key |-> discover_all(scripts)[i], val |-> meta[discover_all(scripts)[i]]]]
    IN  SelectSeq(all, LAMBDA item : has_schedule(item.val))

\* __init__: self._load_schedules(); self._scheduler.start().  No other thread exists yet.
UiLoadSchedules(meta) ==
    /\ pc["ui"] = "init"
    /\ LET r == load_all(schedules, last_fired, schedule_map(meta))
       IN  /\ schedules' = r.schedules
           /\ last_fired' = r.last_fired
    /\ polling' = TRUE
    /\ pc' = [pc EXCEPT !["ui"] = "idle"]
    /\ last' = [Event("load_all", NoKey, "returned", 0, "init")
                    EXCEPT !.left = Len(schedule_map(meta)) - Len(schedules')]
    /\ UNCHANGED <<old, lockState, callState, shown, sessState, scripts, clock, pass, fired, edits, processes,
                   insts, loc, allKeys, afterQueue>>

\* every key of the map, whatever its string
all_items(meta) ==
    [i \in 1..Len(discover_all(scripts)) |->
        [key |-> discover_all(scripts)[i], val |-> meta[discover_all(scripts)[i]]]]

\* Scheduler.load_all is a public method: a caller on the UI thread calls it again, while
\* the polling thread sleeps between two passes
ApiLoadAll(meta) ==
    /\ pc["ui"] = "idle"
    /\ pass.pc = "sleep"
    /\ edits < MaxEdits
    /\ edits' = edits + 1
    /\ LET r == load_all(schedules, last_fired, all_items(meta))
       IN  /\ schedules' = r.schedules
           /\ last_fired' = r.last_fired
    /\ last' = [Event("load_all", NoKey,
                      IF schedules # <<>> /\ \E k \in Keys : last_fired[k] # Never
                      THEN "cleared" ELSE "returned", 0, "api")
                    EXCEPT !.left = Len(all_items(meta)) - Len(schedules')]
    /\ UNCHANGED <<old, lockState, callState, shown, sessState, scripts, clock, pass, fired, polling,
                   processes, insts, pc, loc, allKeys, afterQueue>>

\* open_schedule's on_save: the metadata file is written, then update_schedule(folder_key, raw)
UiUpdateSchedule(k, raw) ==
    /\ pc["ui"] = "idle"
    /\ k \in scripts
    /\ edits < MaxEdits
    /\ edits' = edits + 1
    /\ LET r == update_schedule(schedules, last_fired, k, raw)
       IN  /\ schedules' = r.schedules
           /\ last_fired' = r.last_fired
           /\ last' = Event("update_schedule", k,
                            IF HasSchedule(k)' THEN "set" ELSE "off", 0, "user")
    /\ UNCHANGED <<old, lockState, callState, shown, sessState, scripts, clock, pass, fired, polling,
                   processes, insts, pc, loc, allKeys, afterQueue>>

\* remove_schedule(folder_key): what the two dicts are afterwards
remove_schedule(folder_key) ==
    [schedules  |-> dict_pop(schedules, folder_key),
     last_fired |-> [last_fired EXCEPT ![folder_key] = Never]]

\* delete_script for a script that is not running (a running one is stopped first):
\* remove_schedule(folder_key), then the folder is deleted
UiDelete(k) ==
    /\ pc["ui"] = "idle"
    /\ k \in scripts
    /\ ~is_running(k)
    /\ edits < MaxEdits
    /\ edits' = edits + 1
    /\ schedules' = remove_schedule(k).schedules
    /\ last_fired' = remove_schedule(k).last_fired
    /\ scripts' = scripts \ {k}
    /\ last' = Event("remove_schedule", k, "returned", 0, "user")
    /\ UNCHANGED <<old, lockState, callState, shown, sessState, clock, pass, fired, polling, processes, insts,
                   pc, loc, allKeys, afterQueue>>

\* ---------------------------------------------------------------- the two locks
\* ProcessHandler._lock ("sup") and Scheduler._lock ("sched")
Locks == {"sup", "sched"}

\* the threads that take them: the Tk main thread, the polling thread, two reader threads
LockThreads == {"ui", "sched", "r1", "r2"}

NoOwner == [l \in Locks |-> "-"]
Nowhere == [prog |-> "-", i |-> 0]
AllIdle == [t \in LockThreads |-> Nowhere]

\* the operations a method is made of, in program order
Acquire(l)  == [do |-> "acquire", arg |-> {l}]      \* with self._lock: entered
Release(l)  == [do |-> "release", arg |-> {l}]      \* with self._lock: left (return included)
Map(l)      == [do |-> "map", arg |-> {l}]          \* a read or write of the guarded dicts
Plain       == [do |-> "plain", arg |-> {}]         \* local work
Blocking(w) == [do |-> w, arg |-> {}]               \* spawn, readline, wait, sleep, join
Callback(c) == [do |-> "callback", arg |-> {c}]     \* a callable handed in by the caller
Branch(js)  == [do |-> "branch", arg |-> js]        \* if / for / except: go on at one of js

\* the operations that must run with no lock held
Unlocked == {"spawn", "readline", "wait", "sleep", "join", "callback"}

\* with self._lock: <dict access>
Locked(l) == <<Acquire(l), Map(l), Release(l)>>

\* a start_script that keeps the lock from its check to its store
start_script_ops_one_section ==
    <<Acquire("sup"), Map("sup"), Plain, Branch({5, 9}), Blocking("spawn"), Branch({7, 9}),
      Map("sup"), Plain, Release("sup"), Plain>>

\* ProcessHandler.start_script: the check of _processes (it returns from inside the with
\* block when the script runs), Popen (it may raise), the store of rp, reader.start()
start_script_ops ==
    Locked("sup") \o <<Branch({5, 11}), Blocking("spawn"), Branch({7, 11})>>
                  \o Locked("sup") \o <<Plain>>

\* ProcessHandler.stop_script: the state check (return when not running), terminate,
\* wait(timeout=3), on timeout kill and wait(timeout=5), the final state write
stop_script_ops ==
    Locked("sup") \o <<Branch({5, 13}), Plain, Blocking("wait"), Branch({8, 10}), Plain,
                       Blocking("wait")>>
                  \o Locked("sup")

\* ProcessHandler.is_running, get_running_keys, get_running_names
is_running_ops == Locked("sup")

\* ProcessHandler._reader_thread: for line in stdout: on_output(...); rc = proc.wait();
\* the state write; on_exit(...)
reader_thread_ops ==
    <<Blocking("readline"), Branch({3, 5}), Callback("on_output"), Branch({1}),
      Blocking("wait")>>
    \o Locked("sup") \o <<Callback("on_exit")>>

\* Scheduler.update_schedule: parse, then the dict update
update_schedule_ops == <<Plain>> \o Locked("sched")

\* Scheduler.remove_schedule
remove_schedule_ops == Locked("sched")

\* Scheduler.load_all: the two clear() calls, then update_schedule for each item
load_all_ops == Locked("sched") \o <<Branch({5, 10})>> \o update_schedule_ops \o <<Branch({4})>>

\* Scheduler.start: the flag, the Thread object, Thread.start()
start_ops == <<Plain>>

\* Scheduler.stop: the flag, self._thread.join(timeout=5)
stop_ops == <<Plain, Branch({3, 4}), Blocking("join")>>

\* one turn of Scheduler._poll_loop: _check_all (the snapshot of _schedules; for each
\* entry _should_fire reads _last_fired, then is_running, which is ProcessHandler's and
\* takes its lock, then the write of _last_fired, then on_trigger), on an exception
\* on_log, then the sleeps
poll_loop_ops ==
    Locked("sched")
    \o <<Branch({5, 20})>>
    \o Locked("sched") \o <<Branch({4, 9})>>
    \o <<Callback("is_running")>> \o is_running_ops \o <<Branch({4, 14, 19})>>
    \o Locked("sched")
    \o <<Callback("on_trigger"), Branch({4, 19}), Callback("on_log"), Blocking("sleep"),
         Branch({20, 22})>>

\* the methods by name
Programs ==
    [ start_script    |-> start_script_ops,
      stop_script     |-> stop_script_ops,
      is_running      |-> is_running_ops,
      reader_thread   |-> reader_thread_ops,
      update_schedule |-> update_schedule_ops,
      remove_schedule |-> remove_schedule_ops,
      load_all        |-> load_all_ops,
      start           |-> start_ops,
      stop            |-> stop_ops,
      poll_loop       |-> poll_loop_ops ]

\* which thread runs which: the main thread calls the public methods, the polling
\* thread runs _poll_loop, a reader thread runs _reader_thread
Runs(t) ==
    IF t = "ui" THEN {"start_script", "stop_script", "is_running", "update_schedule",
                      "remove_schedule", "load_all", "start", "stop"}
    ELSE IF t = "sched" THEN {"poll_loop"}
    ELSE {"reader_thread"}

\* the operation thread t has come to
Idle(t) == at[t].prog = "-"
OpOf(t) == IF Idle(t) THEN Plain ELSE Programs[at[t].prog][at[t].i]

\* go on at operation j of the same method; past its last operation the method is over
GoTo(t, j) ==
    at' = [at EXCEPT ![t] = IF j > Len(Programs[at[t].prog]) THEN Nowhere
                            ELSE [prog |-> at[t].prog, i |-> j]]

LockFrame ==
    /\ last' = NoEvent
    /\ UNCHANGED <<old, callState, shown, sessState, scripts, schedules, schedState, polling,
                   processes, insts,
                   pc, loc, allKeys, afterQueue>>

\* thread t enters method p
Enter(t, p) ==
    /\ Idle(t)
    /\ p \in Runs(t)
    /\ at' = [at EXCEPT ![t] = [prog |-> p, i |-> 1]]
    /\ UNCHANGED owner
    /\ LockFrame

\* threading.Lock.acquire: blocks while another thread holds the lock
LockAcquire(t) ==
    /\ OpOf(t).do = "acquire"
    /\ \E l \in OpOf(t).arg :
          /\ owner[l] = "-"
          /\ owner' = [owner EXCEPT ![l] = t]
    /\ GoTo(t, at[t].i + 1)
    /\ LockFrame

\* threading.Lock.release
LockRelease(t) ==
    /\ OpOf(t).do = "release"
    /\ \E l \in OpOf(t).arg : owner' = [owner EXCEPT ![l] = "-"]
    /\ GoTo(t, at[t].i + 1)
    /\ LockFrame

\* a dict access, local work, a blocking call that returns, a callback that returns
Perform(t) ==
    /\ ~Idle(t)
    /\ OpOf(t).do \in {"map", "plain"} \cup Unlocked
    /\ GoTo(t, at[t].i + 1)
    /\ UNCHANGED owner
    /\ LockFrame

\* a branch of the control flow
Jump(t) ==
    /\ OpOf(t).do = "branch"
    /\ \E j \in OpOf(t).arg : GoTo(t, j)
    /\ UNCHANGED owner
    /\ LockFrame

\* ---------------------------------------------------------------- ScheduleEntry.parse, taken alone
\* An input is kept with the parts it was written from, so that what parse should make of
\* it can be told without parsing it: text is the whole string of a malformed input, n and
\* unit the number and unit letter of an interval, time and list the hour, the minute and
\* the day tokens of a weekdays schedule.
Case(kind, text, n, unit, time, list) ==
    [kind |-> kind, text |-> text, n |-> n, unit |-> unit, time |-> time, list |-> list]

Malformed(why, text) == Case(why, text, 0, <<>>, <<>>, <<>>)

\* the decimal digits of n
DigitChar == <<"0", "1", "2", "3", "4", "5", "6", "7", "8", "9">>
RECURSIVE Str(_)
Str(n) == IF n < 10 THEN <<DigitChar[n + 1]>> ELSE Str(n \div 10) \o <<DigitChar[(n % 10) + 1]>>

\* sep.join(list)
RECURSIVE Join(_, _)
Join(list, sep) ==
    IF list = <<>> THEN <<>>
    ELSE IF Len(list) = 1 THEN list[1]
    ELSE list[1] \o <<sep>> \o Join(Tail(list), sep)

\* the empty string, off, an unknown keyword, too few fields, too many fields, a time that
\* is not two numbers, an interval that is not a number
MalformedCases ==
    { Malformed("plain", <<>>),
      Malformed("plain", <<"o", "f", "f">>),
      Malformed("plain", <<"O", "F", "F">>),
      Malformed("plain", <<"O", "f", "f">>),
      Malformed("keyword", <<"g", "a", "r", "b", "a", "g", "e">>),
      Malformed("keyword", <<"g", "a", "r", "b", "a", "g", "e", "|", "0", "8", ":", "0", "0">>),
      Malformed("keyword", <<"d", "a", "y", "l", "y", "|", "0", "8", ":", "0", "0">>),
      Malformed("few", <<"d", "a", "i", "l", "y">>),
      Malformed("few", <<"i", "n", "t", "e", "r", "v", "a", "l">>),
      Malformed("few", <<"w", "e", "e", "k", "d", "a", "y", "s">>),
      Malformed("few", <<"w", "e", "e", "k", "d", "a", "y", "s", "|", "0", "8", ":", "0", "0">>),
      Malformed("many", <<"d", "a", "i", "l", "y", "|", "0", "8", ":", "0", "0", "|", "x">>),
      Malformed("many", <<"i", "n", "t", "e", "r", "v", "a", "l", "|", "5", "m", "|", "x">>),
      Malformed("many", <<"w", "e", "e", "k", "d", "a", "y", "s", "|", "0", "8", ":", "0", "0", "|", "m", "o",
  "n", "|", "x">>),
      Malformed("time", <<"d", "a", "i", "l", "y", "|", "n", "o", "t", "a", "t", "i", "m", "e">>),
      Malformed("time", <<"d", "a", "i", "l", "y", "|", "8">>),
      Malformed("time", <<"d", "a", "i", "l", "y", "|", "0", "8", ":", "0", "0", ":", "0", "0">>),
      Malformed("time", <<"d", "a", "i", "l", "y", "|", ":">>),
      Malformed("time", <<"d", "a", "i", "l", "y", "|", "a", "a", ":", "b", "b">>),
      Malformed("time", <<"w", "e", "e", "k", "d", "a", "y", "s", "|", "x", "|", "m", "o", "n">>),
      Malformed("interval", <<"i", "n", "t", "e", "r", "v", "a", "l", "|">>),
      Malformed("interval", <<"i", "n", "t", "e", "r", "v", "a", "l", "|", "m">>),
      Malformed("interval", <<"i", "n", "t", "e", "r", "v", "a", "l", "|", "a", "b", "c">>),
      Malformed("interval", <<"i", "n", "t", "e", "r", "v", "a", "l", "|", "1", ".", "5", "h">>) }

\* interval|N, interval|Nm, interval|NM, interval|Nh, interval|NH
IntervalCases ==
    {Case("interval_n", <<>>, n, u, <<>>, <<>>) :
        n \in (1..MaxCount) \cup {45, 120}, u \in {<<>>, <<"m">>, <<"M">>, <<"h">>, <<"H">>}}

\* the day tokens of the lists, each with the index _DAY_MAP has for it once it is lowered
\* and stripped, NoDay if it has none
NoDay == 0 - 1
TokenDay ==
    (<<"m", "o", "n">> :> 0) @@ (<<"F", "R", "I">> :> 4) @@ (<<" ", "w", "e", "d">> :> 2) @@
    (<<"S", "u", "n">> :> 6) @@ (<<"x", "y", "z">> :> NoDay)

\* weekdays|09:00|list for every list of at most MaxTokens tokens, and three more times
WeekdayCases ==
    {Case("weekdays_list", <<>>, 0, <<>>, <<9, 0>>, list) :
        list \in UNION {[1..n -> DOMAIN TokenDay] : n \in 1..MaxTokens}}
    \cup {Case("weekdays_list", <<>>, 0, <<>>, time, <<<<"m", "o", "n">>, <<"F", "R", "I">>>>) :
             time \in {<<0, 0>>, <<23, 59>>, <<7, 5>>}}

ParseCases == MalformedCases \cup IntervalCases \cup WeekdayCases

\* HH:MM, two digits each
TimeText(time) ==
    (IF time[1] < 10 THEN <<"0">> ELSE <<>>) \o Str(time[1]) \o <<":">> \o
    (IF time[2] < 10 THEN <<"0">> ELSE <<>>) \o Str(time[2])

\* the string of an input
RawOf(c) ==
    IF c.kind = "interval_n"
    THEN <<"i", "n", "t", "e", "r", "v", "a", "l", "|">> \o Str(c.n) \o c.unit
    ELSE IF c.kind = "weekdays_list"
    THEN <<"w", "e", "e", "k", "d", "a", "y", "s", "|">> \o TimeText(c.time) \o <<"|">>
         \o Join(c.list, ",")
    ELSE c.text

\* entry = ScheduleEntry.parse(raw)
ParseCall ==
    /\ ret = NoRet
    /\ arg \in ParseCases
    /\ ret' = parse(RawOf(arg))
    /\ last' = Event("parse", NoKey, "returned", 0, "api")
    /\ UNCHANGED <<old, lockState, arg, job, shown, sessState, scripts, schedules, schedState,
                   polling, processes, insts, pc, loc, allKeys, afterQueue>>

\* ---------------------------------------------------------------- specifications
\* the state after PyLauncherApp.__init__: nothing started yet, the scheduler polling
Start0 ==
    /\ polling = TRUE
    /\ processes = [k \in Keys |-> 0]
    /\ insts = <<>>
    /\ pc = [t \in Threads |-> "idle"]
    /\ loc = [t \in Threads |-> NoCall]
    /\ allKeys = <<>>
    /\ afterQueue = <<>>
    /\ last = NoEvent
    /\ last_fired = [k \in Keys |-> Never]
    /\ clock \in StartTimes
    /\ pass = Asleep
    /\ fired = [k \in Keys |-> NotFired]
    /\ edits = 0
    /\ stateFile = NoFile
    /\ state = NoState
    /\ restoreKeys = <<>>
    /\ old = NoThread
    /\ owner = NoOwner
    /\ at = AllIdle
    /\ arg = <<>>
    /\ ret = NoRet
    /\ job = NoJob
    /\ shown = [k \in Keys |-> FALSE]

\* one installed script, without a schedule
Init ==
    /\ scripts = {"a"}
    /\ schedules = <<>>
    /\ Start0

\* two installed scripts, neither with a schedule
InitAll ==
    /\ scripts = Keys
    /\ schedules = <<>>
    /\ Start0

\* one installed script that has a schedule
InitSched ==
    /\ scripts = {"a"}
    /\ schedules = <<[key |-> "a", val |-> parse(RawDaily)]>>
    /\ Start0

\* one installed script with a daily, an interval or a weekdays schedule
InitTime ==
    /\ scripts = {"a"}
    /\ \E raw \in {RawDaily, RawInterval, RawWeekdays} :
          schedules = <<[key |-> "a", val |-> parse(raw)]>>
    /\ Start0

\* two installed scripts, inside PyLauncherApp.__init__ before self._load_schedules()
InitEdit ==
    /\ scripts = Keys
    /\ schedules = <<>>
    /\ polling = FALSE
    /\ processes = [k \in Keys |-> 0]
    /\ insts = <<>>
    /\ pc = [t \in Threads |-> IF t = "ui" THEN "init" ELSE "idle"]
    /\ loc = [t \in Threads |-> NoCall]
    /\ allKeys = <<>>
    /\ afterQueue = <<>>
    /\ last = NoEvent
    /\ last_fired = [k \in Keys |-> Never]
    /\ clock \in StartTimes
    /\ pass = Asleep
    /\ fired = [k \in Keys |-> NotFired]
    /\ edits = 0
    /\ stateFile = NoFile
    /\ state = NoState
    /\ restoreKeys = <<>>
    /\ old = NoThread
    /\ owner = NoOwner
    /\ at = AllIdle
    /\ arg = <<>>
    /\ ret = NoRet
    /\ job = NoJob
    /\ shown = [k \in Keys |-> FALSE]

\* one installed script, inside PyLauncherApp.__init__ before self._load_schedules()
InitMeta ==
    /\ scripts = {"a"}
    /\ schedules = <<>>
    /\ polling = FALSE
    /\ processes = [k \in Keys |-> 0]
    /\ insts = <<>>
    /\ pc = [t \in Threads |-> IF t = "ui" THEN "init" ELSE "idle"]
    /\ loc = [t \in Threads |-> NoCall]
    /\ allKeys = <<>>
    /\ afterQueue = <<>>
    /\ last = NoEvent
    /\ last_fired = [k \in Keys |-> Never]
    /\ clock \in StartTimes
    /\ pass = Asleep
    /\ fired = [k \in Keys |-> NotFired]
    /\ edits = 0
    /\ stateFile = NoFile
    /\ state = NoState
    /\ restoreKeys = <<>>
    /\ old = NoThread
    /\ owner = NoOwner
    /\ at = AllIdle
    /\ arg = <<>>
    /\ ret = NoRet
    /\ job = NoJob
    /\ shown = [k \in Keys |-> FALSE]

\* a StateManager whose file holds anything
InitState ==
    /\ scripts = {"a"}
    /\ schedules = <<>>
    /\ polling = FALSE
    /\ processes = [k \in Keys |-> 0]
    /\ insts = <<>>
    /\ pc = [t \in Threads |-> "idle"]
    /\ loc = [t \in Threads |-> NoCall]
    /\ allKeys = <<>>
    /\ afterQueue = <<>>
    /\ last = NoEvent
    /\ last_fired = [k \in Keys |-> Never]
    /\ clock \in StartTimes
    /\ pass = Asleep
    /\ fired = [k \in Keys |-> NotFired]
    /\ edits = 0
    /\ stateFile \in {NoFile} \cup {File(text) : text \in FileTexts}
    /\ state = NoState
    /\ restoreKeys = <<>>
    /\ old = NoThread
    /\ owner = NoOwner
    /\ at = AllIdle
    /\ arg = <<>>
    /\ ret = NoRet
    /\ job = NoJob
    /\ shown = [k \in Keys |-> FALSE]

\* the locks taken alone: every thread idle, both locks free
InitLocks ==
    /\ scripts = {}
    /\ schedules = <<>>
    /\ polling = FALSE
    /\ processes = [k \in Keys |-> 0]
    /\ insts = <<>>
    /\ pc = [t \in Threads |-> "idle"]
    /\ loc = [t \in Threads |-> NoCall]
    /\ allKeys = <<>>
    /\ afterQueue = <<>>
    /\ last = NoEvent
    /\ last_fired = [k \in Keys |-> Never]
    /\ clock \in StartTimes
    /\ pass = Asleep
    /\ fired = [k \in Keys |-> NotFired]
    /\ edits = 0
    /\ stateFile = NoFile
    /\ state = NoState
    /\ restoreKeys = <<>>
    /\ old = NoThread
    /\ owner = NoOwner
    /\ at = AllIdle
    /\ arg = <<>>
    /\ ret = NoRet
    /\ job = NoJob
    /\ shown = [k \in Keys |-> FALSE]

NextLocks ==
    \E t \in LockThreads :
       \/ \E p \in Runs(t) : Enter(t, p)
       \/ LockAcquire(t)
       \/ LockRelease(t)
       \/ Perform(t)
       \/ Jump(t)

SpecLocks == InitLocks /\ [][NextLocks]_vars

\* a Scheduler with two schedules, in either dict order: "a" every minute, "b" daily at
\* 08:00; the callables it was given may raise for "a"
InitErr ==
    /\ scripts = Keys
    /\ \E ks \in {<<"a", "b">>, <<"b", "a">>} :
          schedules = [i \in 1..2 |->
                         [key |-> ks[i],
                          val |-> parse(IF ks[i] = "a" THEN RawInterval ELSE RawDaily)]]
    /\ Start0

\* the polling thread's passes with callables that raise; every start a trigger asks for
\* fails at Popen, so that no script is ever running here
NextErr ==
    \/ PassBegin
    \/ PassCheck
    \/ PassCheckRaises
    \/ PassRecord
    \/ PassTrigger
    \/ PassTriggerRaises
    \/ PassExcept
    \/ PassEnd
    \/ UiTrigger
    \/ \E t \in Threads : PopenFails(t)

SpecErr == InitErr /\ [][NextErr]_vars

\* the polling thread is scheduled: it does not stay for ever in the except block or at
\* the end of its sleeps
SpecErrFair == SpecErr /\ WF_vars(PassExcept) /\ WF_vars(PassBegin)

\* a Scheduler just constructed and loaded with one interval schedule: not started
InitLife ==
    /\ scripts = {"a"}
    /\ schedules = <<[key |-> "a", val |-> parse(RawInterval)]>>
    /\ polling = FALSE
    /\ processes = [k \in Keys |-> 0]
    /\ insts = <<>>
    /\ pc = [t \in Threads |-> "idle"]
    /\ loc = [t \in Threads |-> NoCall]
    /\ allKeys = <<>>
    /\ afterQueue = <<>>
    /\ last = NoEvent
    /\ last_fired = [k \in Keys |-> Never]
    /\ clock \in StartTimes
    /\ pass = NoThread
    /\ fired = [k \in Keys |-> NotFired]
    /\ edits = 0
    /\ stateFile = NoFile
    /\ state = NoState
    /\ restoreKeys = <<>>
    /\ old = NoThread
    /\ owner = NoOwner
    /\ at = AllIdle
    /\ arg = <<>>
    /\ ret = NoRet
    /\ job = NoJob
    /\ shown = [k \in Keys |-> FALSE]

\* start() and stop() called in any order while the polling threads run; every start a
\* trigger asks for fails at Popen
NextLife ==
    \/ ApiStart
    \/ ApiStop
    \/ JoinOk
    \/ JoinTimeout
    \/ PassBegin
    \/ PassCheck
    \/ PassRecord
    \/ PassTrigger
    \/ PassEnd
    \/ PassExit
    \/ OldCheck
    \/ OldRecord
    \/ OldTrigger
    \/ OldEnd
    \/ OldExit
    \/ OldBegin
    \/ UiTrigger
    \/ \E t \in Threads : PopenFails(t)

SpecLife == InitLife /\ [][NextLife]_vars

\* ScheduleEntry.parse about to be called with one of the inputs
InitParse ==
    /\ scripts = {}
    /\ schedules = <<>>
    /\ polling = FALSE
    /\ processes = [k \in Keys |-> 0]
    /\ insts = <<>>
    /\ pc = [t \in Threads |-> "idle"]
    /\ loc = [t \in Threads |-> NoCall]
    /\ allKeys = <<>>
    /\ afterQueue = <<>>
    /\ last = NoEvent
    /\ last_fired = [k \in Keys |-> Never]
    /\ clock \in StartTimes
    /\ pass = Asleep
    /\ fired = [k \in Keys |-> NotFired]
    /\ edits = 0
    /\ stateFile = NoFile
    /\ state = NoState
    /\ restoreKeys = <<>>
    /\ old = NoThread
    /\ owner = NoOwner
    /\ at = AllIdle
    /\ arg \in ParseCases
    /\ ret = NoRet
    /\ job = NoJob
    /\ shown = [k \in Keys |-> FALSE]

NextParse == ParseCall

SpecParse == InitParse /\ [][NextParse]_vars

\* the session records _on_exit can have written: the running keys, each once
ExitRecords ==
    {save(ks) : ks \in {<<name_of("a")>>, <<name_of("b")>>, <<name_of("a"), name_of("b")>>,
                        <<name_of("b"), name_of("a")>>}}

\* inside PyLauncherApp.__init__ before self._restore_previous_session(): the scheduler has
\* been started, state.json is as the last session left it; a script that ran then may have
\* been removed since
InitBoot ==
    /\ scripts \in {{"a"}, Keys}
    /\ schedules = <<>>
    /\ polling = TRUE
    /\ processes = [k \in Keys |-> 0]
    /\ insts = <<>>
    /\ pc = [t \in Threads |-> IF t = "ui" THEN "restore" ELSE "idle"]
    /\ loc = [t \in Threads |-> NoCall]
    /\ allKeys = <<>>
    /\ afterQueue = <<>>
    /\ last = NoEvent
    /\ last_fired = [k \in Keys |-> Never]
    /\ clock \in StartTimes
    /\ pass = Asleep
    /\ fired = [k \in Keys |-> NotFired]
    /\ edits = 0
    /\ stateFile \in {NoFile} \cup ExitRecords
    /\ state = NoState
    /\ restoreKeys = <<>>
    /\ old = NoThread
    /\ owner = NoOwner
    /\ at = AllIdle
    /\ arg = <<>>
    /\ ret = NoRet
    /\ job = NoJob
    /\ shown = [k \in Keys |-> FALSE]

\* ---------------------------------------------------------------- VenvManager._install_worker
\* job.pc is the statement the worker thread is at; outs and dones count the calls of
\* on_output and on_complete it has made, result is what on_complete was last given, late
\* is set by a call of on_output that follows one of on_complete, path is the way taken.
\* a statement that calls a callback: which one, with what, where the worker goes when the
\* callback returns, and whether the statement stands inside the try
Stmt(call, value, next, inTry) == [call |-> call, value |-> value, next |-> next, inTry |-> inTry]

Calls ==
    [stmt \in {"missing_out", "missing_done", "create_out", "venv_err_out", "venv_err_done",
             "venv_ok_out", "install_out", "line_out", "ok_out", "ok_done", "fail_out",
             "fail_done", "except_out", "except_done"} |->
        CASE stmt = "missing_out"   -> Stmt("on_output", "-", "missing_done", FALSE)
          [] stmt = "missing_done"  -> Stmt("on_complete", "False", "done", FALSE)
          [] stmt = "create_out"    -> Stmt("on_output", "-", "run", TRUE)
          [] stmt = "venv_err_out"  -> Stmt("on_output", "-", "venv_err_done", TRUE)
          [] stmt = "venv_err_done" -> Stmt("on_complete", "False", "done", TRUE)
          [] stmt = "venv_ok_out"   -> Stmt("on_output", "-", "install_out", TRUE)
          [] stmt = "install_out"   -> Stmt("on_output", "-", "popen", TRUE)
          [] stmt = "line_out"      -> Stmt("on_output", "-", "read", TRUE)
          [] stmt = "ok_out"        -> Stmt("on_output", "-", "ok_done", TRUE)
          [] stmt = "ok_done"       -> Stmt("on_complete", "True", "done", TRUE)
          [] stmt = "fail_out"      -> Stmt("on_output", "-", "fail_done", TRUE)
          [] stmt = "fail_done"     -> Stmt("on_complete", "False", "done", TRUE)
          [] stmt = "except_out"    -> Stmt("on_output", "-", "except_done", FALSE)
          [] stmt = "except_done"   -> Stmt("on_complete", "False", "done", FALSE)]

AtCall(call) == job.pc \in DOMAIN Calls /\ Calls[job.pc].call = call

\* an exception raised at a statement: caught by `except Exception as e` when the statement
\* is inside the try, the end of the thread when it is not
Caught(inTry) == IF inTry THEN "except_out" ELSE "died"

InstallFrame ==
    UNCHANGED <<old, lockState, arg, ret, shown, sessState, scripts, schedules, schedState,
                polling, processes, insts, pc, loc, allKeys, afterQueue>>

WorkerGoes(next, path) ==
    /\ job' = [job EXCEPT !.pc = next, !.path = path]
    /\ last' = NoEvent
    /\ InstallFrame

\* install_requirements(folder_path, on_output, on_complete): thread.start()
InstallCall ==
    /\ job.pc \in {"none", "done", "died"}
    /\ job.calls < MaxInstalls
    /\ job' = [NoJob EXCEPT !.pc = "begin", !.calls = job.calls + 1]
    /\ last' = Event("install", NoKey, "started", 0, "ui")
    /\ InstallFrame

\* if not req_file.exists():
WorkerBegin ==
    /\ job.pc = "begin"
    /\ \/ WorkerGoes("missing_out", "missing")
       \/ WorkerGoes("venv", "-")

\* try: if not venv_path.exists(): ... else: on_output("Virtual environment already exists.")
WorkerVenv ==
    /\ job.pc = "venv"
    /\ \/ WorkerGoes("create_out", "-")
       \/ WorkerGoes("venv_ok_out", "-")

\* result = subprocess.run([python, "-m", "venv", ...]): it raises (no such interpreter),
\* returns a non-zero code, or returns 0
WorkerRun ==
    /\ job.pc = "run"
    /\ \/ WorkerGoes("except_out", "exception")
       \/ WorkerGoes("venv_err_out", "venv_failed")
       \/ WorkerGoes("venv_ok_out", "-")

\* process = subprocess.Popen([pip_python, "-u", "-m", "pip", ...]): it raises or returns
WorkerPopen ==
    /\ job.pc = "popen"
    /\ \/ WorkerGoes("except_out", "exception")
       \/ WorkerGoes("read", "-")

\* for line_bytes in iter(process.stdout.readline, b""): a line that is not empty once
\* decoded and stripped
WorkerReadLine ==
    /\ job.pc = "read"
    /\ job.lines < MaxLines
    /\ job' = [job EXCEPT !.pc = "line_out", !.lines = @ + 1]
    /\ last' = NoEvent
    /\ InstallFrame

\* readline returns b""; rc = process.wait(); if rc == 0: ... else: ...
WorkerWait ==
    /\ job.pc = "read"
    /\ \/ WorkerGoes("ok_out", "rc_zero")
       \/ WorkerGoes("fail_out", "rc_nonzero")

\* on_output(...) returns
WorkerOutput ==
    /\ AtCall("on_output")
    /\ job' = [job EXCEPT !.pc = Calls[job.pc].next, !.outs = @ + 1,
                          !.late = @ \/ job.dones > 0]
    /\ last' = Event("on_output", NoKey, "returned", 0, "install")
    /\ InstallFrame

\* on_output(...) raises (self.after raises once the main loop has ended)
WorkerOutputRaises ==
    /\ AtCall("on_output")
    /\ job' = [job EXCEPT !.pc = Caught(Calls[job.pc].inTry), !.outs = @ + 1,
                          !.late = @ \/ job.dones > 0,
                          !.path = IF Calls[job.pc].inTry THEN "exception" ELSE @]
    /\ last' = Event("on_output", NoKey, "raised", 0, "install")
    /\ InstallFrame

\* on_complete(success) returns
WorkerComplete ==
    /\ AtCall("on_complete")
    /\ job' = [job EXCEPT !.pc = Calls[job.pc].next, !.dones = @ + 1,
                          !.result = Calls[job.pc].value]
    /\ last' = Event("on_complete", NoKey, "returned", 0, "install")
    /\ InstallFrame

\* on_complete(success) raises: its second self.after, or its first
WorkerCompleteRaises ==
    /\ AtCall("on_complete")
    /\ job' = [job EXCEPT !.pc = Caught(Calls[job.pc].inTry), !.dones = @ + 1,
                          !.result = Calls[job.pc].value,
                          !.path = IF Calls[job.pc].inTry THEN "exception" ELSE @]
    /\ last' = Event("on_complete", NoKey, "raised", 0, "install")
    /\ InstallFrame

\* one call of install_requirements after the other, each with its worker thread
NextInstall ==
    \/ InstallCall
    \/ WorkerBegin
    \/ WorkerVenv
    \/ WorkerRun
    \/ WorkerPopen
    \/ WorkerReadLine
    \/ WorkerWait
    \/ WorkerOutput
    \/ WorkerOutputRaises
    \/ WorkerComplete
    \/ WorkerCompleteRaises

SpecInstall == Init /\ [][NextInstall]_vars

\* ---------------------------------------------------------------- controller and supervisor
\* the reader's on_exit(folder_key, rc) as app.start_script defines it:
\* self.after(0, lambda: self._on_script_exit(key, rc)); the thread ends
ReaderPostsExit(i) ==
    /\ insts[i].reader = "exit"
    /\ Len(afterQueue) < MaxQueue
    /\ insts' = [insts EXCEPT ![i].exits = @ + 1, ![i].reader = "done"]
    /\ afterQueue' = Append(afterQueue, [ev |-> "exit", key |-> insts[i].key])
    /\ last' = NoEvent
    /\ UNCHANGED <<old, lockState, callState, shown, sessState, scripts, schedules, schedState, polling,
                   processes, pc, loc, allKeys>>

\* the main loop runs the queued callback: _on_script_exit(folder_key, return_code):
\* installed_tab.update_script_state(folder_key, running=False)
on_script_exit ==
    /\ pc["ui"] = "idle"
    /\ afterQueue # <<>>
    /\ Head(afterQueue).ev = "exit"
    /\ afterQueue' = Tail(afterQueue)
    /\ shown' = [shown EXCEPT ![Head(afterQueue).key] = FALSE]
    /\ last' = Event("on_script_exit", Head(afterQueue).key, "returned", 0, "ui")
    /\ UNCHANGED <<old, lockState, callState, sessState, scripts, schedules, schedState, polling,
                   processes, insts, pc, loc, allKeys>>

\* the controller with its rows, over children that obey signals and callbacks that return
NextApp ==
    \/ \E k \in Keys : UiStart(k)
    \/ \E k \in Keys : UiStop(k)
    \/ on_script_exit
    \/ \E t \in Threads : PopenOk(t)
    \/ \E t \in Threads : PopenFails(t)
    \/ \E t \in Threads : WaitOk(t)
    \/ \E t \in Threads : WaitTimeoutKill(t)
    \/ \E t \in Threads : Wait2Ok(t)
    \/ \E t \in Threads : StopFinal(t)
    \/ \E i \in InstIds : ReaderBreak(i)
    \/ \E i \in InstIds : ReaderLine(i)
    \/ \E i \in InstIds : ReaderEOF(i)
    \/ \E i \in InstIds : ReaderFinalize(i)
    \/ \E i \in InstIds : ReaderPostsExit(i)
    \/ \E i \in InstIds : ProcExit(i)

SpecApp == Init /\ [][NextApp]_vars

\* the supervisor under the controller's commands
Next ==
    \/ \E k \in Keys : UiStart(k)
    \/ \E k \in Keys : UiStop(k)
    \/ UiExit
    \/ AllNext
    \/ AllDone
    \/ \E t \in Threads : PopenOk(t)
    \/ \E t \in Threads : PopenFails(t)
    \/ \E t \in Threads : WaitOk(t)
    \/ \E t \in Threads : WaitTimeoutKill(t)
    \/ \E t \in Threads : WaitTimeoutKillOSError(t)
    \/ \E t \in Threads : Wait2Ok(t)
    \/ \E t \in Threads : Wait2Timeout(t)
    \/ \E t \in Threads : StopFinal(t)
    \/ \E i \in InstIds : ReaderBreak(i)
    \/ \E i \in InstIds : ReaderLine(i)
    \/ \E i \in InstIds : ReaderLineSwallowed(i)
    \/ \E i \in InstIds : ReaderLineRaises(i)
    \/ \E i \in InstIds : ReaderEOF(i)
    \/ \E i \in InstIds : ReaderFinalize(i)
    \/ \E i \in InstIds : ReaderOnExit(i)
    \/ \E i \in InstIds : ProcExit(i)

Spec == Init /\ [][Next]_vars

SpecAll == InitAll /\ [][Next]_vars

\* what a reader thread does by itself once it is scheduled: the pipe of a child comes to
\* its end of file, and proc.wait() returns once the child is dead
ReaderRuns(i) == i \in InstIds /\ (ReaderEOF(i) \/ ReaderFinalize(i) \/ ReaderOnExit(i))

\* scripts that are started and end by themselves: nobody stops them
NextSelfExit ==
    \/ \E k \in Keys : UiStart(k)
    \/ \E t \in Threads : PopenOk(t)
    \/ \E t \in Threads : PopenFails(t)
    \/ \E i \in InstIds : ReaderLine(i)
    \/ \E i \in InstIds : ReaderLineSwallowed(i)
    \/ \E i \in InstIds : ReaderLineRaises(i)
    \/ \E i \in InstIds : ReaderEOF(i)
    \/ \E i \in InstIds : ReaderFinalize(i)
    \/ \E i \in InstIds : ReaderOnExit(i)
    \/ \E i \in InstIds : ProcExit(i)

\* the same with reader threads that are scheduled
SpecSelfExit ==
    InitAll /\ [][NextSelfExit]_vars /\ \A i \in 1..MaxInst : WF_vars(ReaderRuns(i))

\* the same with the scheduler's polling thread triggering starts
NextSched ==
    \/ Next
    \/ \E k \in Keys : SchedTrigger(k)
    \/ UiTrigger

SpecSched == InitSched /\ [][NextSched]_vars

\* the polling thread's passes under the clock, the scripts it triggers running and ending
NextTime ==
    \/ PassBegin
    \/ Lag
    \/ Nap
    \/ PassCheck
    \/ PassRecord
    \/ PassTrigger
    \/ PassEnd
    \/ UiTrigger
    \/ \E t \in Threads : PopenOk(t)
    \/ \E t \in Threads : PopenFails(t)
    \/ \E i \in InstIds : ReaderEOF(i)
    \/ \E i \in InstIds : ReaderFinalize(i)
    \/ \E i \in InstIds : ReaderOnExit(i)
    \/ \E i \in InstIds : ProcExit(i)

SpecTime == InitTime /\ [][NextTime]_vars

\* the polling thread's passes while the user edits schedules and deletes scripts; every
\* start a trigger asks for fails at Popen, so that no script is ever running here
NextEdit ==
    \/ \E meta \in [Keys -> MetaRaws] : UiLoadSchedules(meta)
    \/ \E k \in Keys : \E raw \in DialogRaws : UiUpdateSchedule(k, raw)
    \/ \E k \in Keys : UiDelete(k)
    \/ PassBegin
    \/ PassCheck
    \/ PassRecord
    \/ PassTrigger
    \/ PassEnd
    \/ UiTrigger
    \/ \E t \in Threads : PopenFails(t)

SpecEdit == InitEdit /\ [][NextEdit]_vars

\* the Scheduler loaded again by its caller between the polling thread's passes
NextReload ==
    \/ \E meta \in [Keys -> MetaRaws] : UiLoadSchedules(meta)
    \/ \E meta \in [Keys -> MetaRaws] : ApiLoadAll(meta)
    \/ PassBegin
    \/ PassCheck
    \/ PassRecord
    \/ PassTrigger
    \/ PassEnd
    \/ UiTrigger
    \/ \E t \in Threads : PopenFails(t)

SpecReload == InitEdit /\ [][NextReload]_vars

\* the schedule found in the script's metadata file at startup, and the passes that follow;
\* every start a trigger asks for fails at Popen
NextMeta ==
    \/ \E raw \in FileRaws : UiLoadSchedules([k \in Keys |-> raw])
    \/ PassBegin
    \/ PassCheck
    \/ PassRecord
    \/ PassTrigger
    \/ PassEnd
    \/ UiTrigger
    \/ \E t \in Threads : PopenFails(t)

SpecMeta == InitMeta /\ [][NextMeta]_vars

\* load, save and clear called in any order on any file
NextState ==
    \/ SmLoad
    \/ \E ks \in KeyLists : SmSave(ks)
    \/ SmClear

SpecState == InitState /\ [][NextState]_vars

\* a startup: the restore routine, the scripts it starts and what becomes of them
NextBoot ==
    \/ RestoreLoad
    \/ \E result \in BOOLEAN : RestoreAsk(result)
    \/ RestoreNext
    \/ RestoreClear
    \/ \E t \in Threads : PopenOk(t)
    \/ \E t \in Threads : PopenFails(t)
    \/ \E i \in InstIds : ReaderEOF(i)
    \/ \E i \in InstIds : ReaderFinalize(i)
    \/ \E i \in InstIds : ReaderOnExit(i)
    \/ \E i \in InstIds : ProcExit(i)

SpecBoot == InitBoot /\ [][NextBoot]_vars

\* ================================================================ properties
InstsOf(k) == {i \in InstIds : insts[i].key = k}

\* C1: a Start invoked while the key's entry is Running returns the key at the guard: the
\* call is over, the map and every instance (process, reader, state) are as before, nothing
\* was spawned.
C1_StartWhileRunningIsNoop ==
    [][\A k \in Keys :
          (UiStart(k) /\ is_running(k)) =>
              /\ UNCHANGED <<processes, insts>>
              /\ pc'["ui"] = "idle"
              /\ last' = Event("start", k, "noop", 0, "user")]_vars

\* a second Start has just returned at the guard while the first instance is the only one
\* of its key and its process is alive
C1_Witness ==
    \E k \in Keys :
        /\ last = Event("start", k, "noop", 0, "user")
        /\ is_running(k)
        /\ insts[processes[k]].alive
        /\ Cardinality(InstsOf(k)) = 1

\* C2: a scheduled trigger racing a manual start of the same key cannot double-launch: no
\* key ever has two instances in state Running, and a call that is past the guard, about
\* to spawn, never finds the key's entry Running.
C2_NoDoubleLaunch ==
    /\ \A k \in Keys :
          Cardinality({i \in InstsOf(k) : insts[i].state = "Running"}) <= 1
    /\ \A t \in Threads :
          pc[t] = "start_spawn" => ~is_running(loc[t].key)

\* the scheduler fired for a key that was not running, a manual start got in first, and the
\* trigger's own start then returned at the guard without spawning
C2_Witness ==
    /\ last = Event("start", "a", "noop", 0, "trigger")
    /\ is_running("a")
    /\ Cardinality(InstsOf("a")) = 1

\* C3: at most one OS child process per key is alive in every reachable state.
C3_AtMostOneLiveProcess ==
    \A k \in Keys : Cardinality({i \in InstsOf(k) : insts[i].alive}) <= 1

\* C4: every Stop that found its entry Running ends (returning or raising) with that
\* entry Stopped.
C4_StopEndsStopped ==
    (last.op = "stop" /\ last.inst # 0) => insts[last.inst].state = "Stopped"

\* C5: Stop never propagates an error to its caller.
C5_StopNeverRaises ==
    ~(last.op = "stop" /\ last.res = "raised")

\* C6: a Stop on a key without entry, or whose entry is not Running, returns at the guard:
\* the map and every instance are as before, no terminate or kill is sent, nothing is raised.
\* This holds for a Stop of the user and for one issued by stop_all's loop.
C6_StopNotRunningIsNoop ==
    [][/\ \A k \in Keys :
             (UiStop(k) /\ ~is_running(k)) =>
                 /\ UNCHANGED <<processes, insts>>
                 /\ pc'["ui"] = "idle"
                 /\ last' = Event("stop", k, "noop", 0, "user")
       /\ (AllNext /\ ~is_running(Head(allKeys))) =>
                 /\ UNCHANGED <<processes, insts>>
                 /\ last' = Event("stop", Head(allKeys), "noop", 0, "all")]_vars

\* a Stop has just returned at the guard for a key whose entry is Stopping (an earlier
\* Stop of it raised) while its process is still alive
C6_Witness ==
    \E k \in Keys :
        /\ last = Event("stop", k, "noop", 0, "user")
        /\ processes[k] # 0
        /\ insts[processes[k]].state = "Stopping"
        /\ insts[processes[k]].alive

\* C7: a reader thread that has ended has invoked on_exit exactly once, and on_exit is
\* only ever invoked for a process that has exited.
C7_OnExitExactlyOnce ==
    \A i \in InstIds :
        /\ insts[i].reader \in {"done", "crashed"} => insts[i].exits = 1
        /\ insts[i].exits <= 1
        /\ insts[i].exits = 1 => ~insts[i].alive

\* C8: when the spawn fails, Start raises and the supervisor is as before: same map, same
\* instances (no entry created or replaced, no reader), and the caller is out of the call.
C8_SpawnFailureChangesNothing ==
    [][(last'.op = "start" /\ last'.res = "raised") =>
           /\ UNCHANGED <<processes, insts>>
           /\ \A t \in Threads : pc[t] = "start_spawn" => pc'[t] \in {"idle", "start_spawn"}
           /\ \E t \in Threads : pc[t] = "start_spawn" /\ pc'[t] = "idle"]_vars

\* a Start has just raised for a key whose earlier instance is still there, Stopped
C8_Witness ==
    /\ last.op = "start" /\ last.res = "raised"
    /\ processes[last.key] # 0
    /\ insts[processes[last.key]].state = "Stopped"

\* C9: a reader that finishes changes no instance but its own, and an instance leaves
\* Running only by a Stop marking that very instance or by its own reader finishing after
\* its own process has exited.
C9_ReaderBoundToInstance ==
    [][/\ \A i \in InstIds :
             (last'.op = "reader" /\ last'.inst = i) =>
                 \A j \in InstIds \ {i} : insts'[j] = insts[j]
       /\ \A j \in InstIds :
             (insts[j].state = "Running" /\ insts'[j].state # "Running") =>
                 \/ /\ \E t \in Threads : pc'[t] \in {"stop_wait", "stop_final"} /\ loc'[t].rp = j
                    /\ insts'[j].state = "Stopping"
                 \/ /\ last' = Event("reader", insts[j].key, "finalized", j, "reader")
                    /\ ~insts[j].alive
                    /\ insts'[j].state = "Stopped"]_vars

\* after Start, Stop, Start on one key the first instance's reader has just finished while
\* the second instance is the key's entry, Running, with its own reader reading
C9_Witness ==
    \E i \in InstIds : \E j \in InstIds :
        /\ i < j
        /\ insts[i].key = insts[j].key
        /\ last = Event("reader", insts[i].key, "finalized", i, "reader")
        /\ processes[insts[j].key] = j
        /\ insts[j].state = "Running"
        /\ insts[j].reader = "read"

\* C10: when ShutdownAll is over (stop_all returned, or a Stop inside it raised), no entry
\* is Running and every key of its snapshot was passed to Stop.
C10_ShutdownAllStopsAll ==
    (\/ last.op = "stop_all" /\ last.res = "returned"
     \/ last.op = "stop" /\ last.res = "raised" /\ last.src = "all") =>
        /\ \A k \in Keys : ~is_running(k)
        /\ last.left = 0

\* C11: in every state get_running_keys() returns, each once, exactly the keys whose entry is
\* Running (an entry that is Stopping or Stopped is left out), is_running(k) is true exactly
\* for the keys it returns, and taking the snapshot (as _on_exit does) changes neither the
\* map nor any instance.
RunningKeysExact ==
    LET keys == get_running_keys
        got  == {keys[i] : i \in 1..Len(keys)}
    IN  /\ got = {k \in Keys : processes[k] # 0 /\ insts[processes[k]].state = "Running"}
        /\ Len(keys) = Cardinality(got)
        /\ \A k \in Keys : is_running(k) <=> k \in got

C11_RunningKeysReflectRunning ==
    [][/\ RunningKeysExact
       /\ RunningKeysExact'
       /\ UiExit => (allKeys' = get_running_keys /\ UNCHANGED <<processes, insts>>)]_vars

\* the snapshot was just taken for a key that was started twice: its first instance is
\* Stopped and no longer in the map, its entry is the second, Running, and the key is
\* returned once
C11_Witness ==
    /\ pc["ui"] = "all_next"
    /\ allKeys = <<"a">>
    /\ Cardinality(InstsOf("a")) = 2
    /\ insts[1].state = "Stopped"
    /\ processes["a"] = 2
    /\ insts[2].state = "Running"

\* ---------------------------------------------------------------- the schedules' triggers
\* the item the pass is at
PassItem == Head(pass.entries)

\* the step is the pass testing the item of key k
Checking(k) == PassCheck /\ PassItem.key = k

\* the step is the trigger callback being called for key k
Calling(k) == fired'[k].n = fired[k].n + 1

\* two datetimes in the same minute of the same day
SameMinute(t, u) == t \div 60 = u \div 60

\* the datetime t is in the minute tod = (hour, minute) of its day
InMinute(t, tod) == (t % 86400) \div 60 = tod[1] * 60 + tod[2]

\* C12: for a Daily entry the trigger callback is called at most once in a calendar minute,
\* only in a minute that matches time_of_day, and a pass that tests the key in a matching
\* minute while it is not running fires unless the key was fired in that minute already.
C12_DailyFiresOncePerMinute ==
    [][\A i \in 1..Len(schedules) :
          LET k == schedules[i].key
              e == schedules[i].val
          IN  e.schedule_type = "DAILY" =>
                /\ Calling(k) =>
                      /\ InMinute(pass.now, e.time_of_day)
                      /\ fired[k].prev # Never => ~SameMinute(fired[k].prev, pass.now)
                /\ (Checking(k) /\ InMinute(pass.now, e.time_of_day) /\ ~is_running(k)) =>
                      \/ pass'.pc = "record"
                      \/ fired[k].n > 0 /\ SameMinute(fired[k].prev, pass.now)]_vars

\* a later pass in the minute of the one firing has ended without firing again, the key
\* never having run
C12_Witness ==
    /\ schedules[1].val.schedule_type = "DAILY"
    /\ fired["a"].n = 1
    /\ insts = <<>>
    /\ pass.pc = "sleep"
    /\ pass.now > fired["a"].prev
    /\ SameMinute(pass.now, fired["a"].prev)

\* C13: for a Daily entry _should_fire is true exactly when now is in the minute
\* time_of_day and the key has no last-fired time or one in another minute; so every
\* callback is made in the target minute (none before it, none later that day to catch up).
C13_DailyPredicate ==
    /\ (pass.pc = "check" /\ pass.entries # <<>> /\ PassItem.val.schedule_type = "DAILY") =>
          (should_fire(PassItem.key, PassItem.val, pass.now)
              <=> /\ InMinute(pass.now, PassItem.val.time_of_day)
                  /\ \/ last_fired[PassItem.key] = Never
                     \/ ~SameMinute(last_fired[PassItem.key], pass.now))
    /\ \A i \in 1..Len(schedules) :
          (schedules[i].val.schedule_type = "DAILY" /\ fired[schedules[i].key].n > 0) =>
              InMinute(fired[schedules[i].key].prev, schedules[i].val.time_of_day)

\* the target minute went by without a pass; a pass later that day finds the key not due
C13_Witness ==
    /\ pass.pc = "check"
    /\ pass.entries # <<>>
    /\ PassItem.val.schedule_type = "DAILY"
    /\ fired[PassItem.key].n = 0
    /\ date(pass.now) = 0
    /\ (pass.now % 86400) \div 60 > PassItem.val.time_of_day[1] * 60 + PassItem.val.time_of_day[2]
    /\ ~should_fire(PassItem.key, PassItem.val, pass.now)

\* C14: for a Weekdays entry _should_fire is true exactly when now's weekday (Mon = 0) is
\* in the entry's list and the Daily test holds; every callback is made on a listed day.
C14_WeekdaysPredicate ==
    /\ (pass.pc = "check" /\ pass.entries # <<>> /\ PassItem.val.schedule_type = "WEEKDAYS") =>
          (should_fire(PassItem.key, PassItem.val, pass.now)
              <=> /\ \E j \in 1..Len(PassItem.val.weekdays) :
                         PassItem.val.weekdays[j] = (pass.now \div 86400) % 7
                  /\ InMinute(pass.now, PassItem.val.time_of_day)
                  /\ \/ last_fired[PassItem.key] = Never
                     \/ ~SameMinute(last_fired[PassItem.key], pass.now))
    /\ \A i \in 1..Len(schedules) :
          (schedules[i].val.schedule_type = "WEEKDAYS" /\ fired[schedules[i].key].n > 0) =>
              \E j \in 1..Len(schedules[i].val.weekdays) :
                  schedules[i].val.weekdays[j] = (fired[schedules[i].key].prev \div 86400) % 7

\* a pass in the target minute of a day that is not listed (Tuesday) finds the key not due
C14_Witness ==
    /\ pass.pc = "check"
    /\ pass.entries # <<>>
    /\ PassItem.val.schedule_type = "WEEKDAYS"
    /\ PassItem.val.weekdays = <<0>>
    /\ date(pass.now) = 1
    /\ InMinute(pass.now, PassItem.val.time_of_day)
    /\ ~should_fire(PassItem.key, PassItem.val, pass.now)

\* C15: for an Interval entry _should_fire is true when the key has no last-fired time and
\* otherwise exactly when interval_seconds or more have passed since it; a first pass that
\* finds the key not running fires, and two consecutive callbacks for the key are at least
\* interval_seconds apart.
C15_IntervalPredicate ==
    [][\A i \in 1..Len(schedules) :
          LET k == schedules[i].key
              e == schedules[i].val
          IN  e.schedule_type = "INTERVAL" =>
                /\ Checking(k) =>
                      (should_fire(k, e, pass.now)
                          <=> \/ last_fired[k] = Never
                              \/ last_fired[k] + e.interval_seconds <= pass.now)
                /\ (Checking(k) /\ fired[k].n = 0 /\ ~is_running(k)) => pass'.pc = "record"
                /\ (Calling(k) /\ fired[k].n > 0) =>
                      fired'[k].prev - fired[k].prev >= e.interval_seconds]_vars

\* the key was fired a second time, a pass between the two firings having found it not due
\* (it never ran)
C15_Witness ==
    /\ schedules[1].val.schedule_type = "INTERVAL"
    /\ fired["a"].n = 2
    /\ pass.n = 3
    /\ insts = <<>>
    /\ fired["a"].prev - fired["a"].first >= schedules[1].val.interval_seconds

\* C16: with passes at most POLL_INTERVAL + MaxLag apart and the key never running, the n-th
\* callback of an Interval entry is made no later than that after its nominal time, the
\* time of the first callback plus (n - 1) times interval_seconds.
C16_IntervalDoesNotDrift ==
    \A i \in 1..Len(schedules) :
        LET k == schedules[i].key
            e == schedules[i].val
        IN  (e.schedule_type = "INTERVAL" /\ fired[k].n > 0 /\ pass.naps = 0 /\ insts = <<>>) =>
                fired[k].prev - (fired[k].first + (fired[k].n - 1) * e.interval_seconds)
                    <= POLL_INTERVAL + MaxLag

\* C17: a pass calls the trigger callback for a key only after it found the key due and
\* not running, and after it set last_fired[key] to its own time; a pass that finds the key
\* due but running calls nothing and leaves last_fired as it is.
C17_RecordThenTrigger ==
    [][\A k \in Keys :
          /\ Calling(k) =>
                /\ pass.pc = "trigger"
                /\ PassItem.key = k
                /\ last_fired[k] = pass.now
          /\ (Checking(k) /\ pass'.pc = "record") =>
                /\ should_fire(k, PassItem.val, pass.now)
                /\ ~is_running(k)
          /\ (pass.pc = "record" /\ pass'.pc = "trigger" /\ PassItem.key = k) =>
                /\ last_fired'[k] = pass.now
                /\ UNCHANGED <<fired, afterQueue>>
          /\ (Checking(k) /\ should_fire(k, PassItem.val, pass.now) /\ is_running(k)) =>
                /\ pass'.pc = "check"
                /\ UNCHANGED <<last_fired, fired, afterQueue>>]_vars

\* a pass has gone by a key that was due and running: it is still due at the pass's time,
\* no callback was made and last_fired[key] is the time of an earlier pass
C17_Witness ==
    /\ pass.pc = "check"
    /\ pass.entries = <<>>
    /\ should_fire("a", schedules[1].val, pass.now)
    /\ is_running("a")
    /\ last_fired["a"] # Never
    /\ last_fired["a"] < pass.now
    /\ fired["a"].prev = last_fired["a"]

\* ---------------------------------------------------------------- the schedule map
\* C18: a key that has no schedule (it was switched off or removed and not scheduled
\* again) has no last-fired time and the trigger callback is not called for it, also when
\* the pass that is under way was begun before the schedule went.
C18_RemovedKeyIsForgotten ==
    [][\A k \in Keys :
          ~HasSchedule(k)' => (last_fired'[k] = Never /\ ~Calling(k))]_vars

\* C19: update_schedule with a string that parses to an entry sets schedules[key] to that
\* entry and nothing else: last_fired is as before for every key, and every other key has
\* the schedule it had, or none as before.
DialogEntries == [raw \in DialogRaws |-> parse(raw)]

C19_UpdateKeepsLastFired ==
    [][\A k \in Keys : \A raw \in DialogRaws :
          (/\ edits' # edits
           /\ last'.op = "update_schedule"
           /\ last'.key = k
           /\ DialogEntries[raw].schedule_type # "OFF"
           /\ UiUpdateSchedule(k, raw)) =>
              /\ last_fired' = last_fired
              /\ HasSchedule(k)'
              /\ dict_get(schedules', k) = DialogEntries[raw]
              /\ \A j \in Keys \ {k} :
                    /\ HasSchedule(j)' <=> HasSchedule(j)
                    /\ HasSchedule(j) => dict_get(schedules', j) = dict_get(schedules, j)]_vars

\* a daily schedule that has fired was just replaced by an interval one and its last-fired
\* time is still there, next to another key's schedule and last-fired time
C19_Witness ==
    /\ last = Event("update_schedule", "a", "set", 0, "user")
    /\ dict_get(schedules, "a").schedule_type = "INTERVAL"
    /\ last_fired["a"] # Never
    /\ HasSchedule("b")
    /\ last_fired["b"] # Never

\* the two dicts hold what load_all(m) leaves: the keys of m whose string does not parse
\* to OFF, each with the entry its string parses to, and no last-fired time
Loaded(m) ==
    /\ \A k \in Keys :
          /\ HasSchedule(k)' <=>
                \E i \in 1..Len(m) : m[i].key = k /\ parse(m[i].val).schedule_type # "OFF"
          /\ HasSchedule(k)' => dict_get(schedules', k) = parse(dict_get(m, k))
    /\ \A k \in Keys : last_fired'[k] = Never
    /\ Len(schedules') <= Cardinality(Keys)

\* C20: when load_all(m) has returned, whatever the two dicts held before, the keys with a
\* schedule are the keys of m whose string does not parse to OFF, each with the entry its
\* string parses to, and no key has a last-fired time.
C20_LoadAllSeedsSchedules ==
    [][\A meta \in [Keys -> MetaRaws] :
          /\ (pc["ui"] = "init" /\ UiLoadSchedules(meta)) => Loaded(schedule_map(meta))
          /\ (edits' # edits /\ ApiLoadAll(meta)) => Loaded(all_items(meta))]_vars

\* load_all has just returned for a map of two strings of which one parses to OFF, called
\* when there were schedules and last-fired times: one key has a schedule, the other none
C20_Witness ==
    /\ last.op = "load_all"
    /\ last.res = "cleared"
    /\ last.left = 1
    /\ Len(schedules) = 1
    /\ schedules[1].val.schedule_type = "DAILY"

\* ---------------------------------------------------------------- what is stored
\* C21: no entry of the schedule map has type OFF, whatever update_schedule,
\* remove_schedule and load_all calls were made.
C21_NoOffStored ==
    \A i \in 1..Len(schedules) : schedules[i].val.schedule_type # "OFF"

\* update_schedule has just returned for a string that parses to OFF, while another key
\* keeps its schedule
C21_Witness ==
    /\ last = Event("update_schedule", "a", "off", 0, "user")
    /\ ~HasSchedule("a")
    /\ HasSchedule("b")

\* a DAILY or WEEKDAYS entry has a time of day, a WEEKDAYS entry at least one weekday, an
\* INTERVAL entry a positive number of seconds
WellFormed(entry) ==
    /\ entry.schedule_type \in {"DAILY", "WEEKDAYS"} => entry.time_of_day # NoTimeOfDay
    /\ entry.schedule_type = "WEEKDAYS" => entry.weekdays # <<>>
    /\ entry.schedule_type = "INTERVAL" => entry.interval_seconds > 0

\* C22: every entry that parse produced and the scheduler stores is well formed.
C22_StoredEntriesWellFormed ==
    \A i \in 1..Len(schedules) : WellFormed(schedules[i].val)

\* ---------------------------------------------------------------- the session record
\* C28: load() never raises, whatever state.json holds.
C28_LoadNeverRaises == ~state.raised

\* C29: when the restore routine of a startup has ended, however it ended, and the session
\* record listed at least one key, the record is gone.
C29_RecordClearedAfterRestore ==
    (pc["ui"] \in {"idle", "crashed"} /\ truthy(state.running_scripts)) => ~stateFile.exists

\* the list of str that running_scripts is after a round trip of ks
JKeys(ks) == JList([i \in 1..Len(ks) |-> JStr(ks[i])])

\* the file that save(ks) writes, for every list ks
Saved == [ks \in KeyLists |-> save(ks)]

\* C30: load() after save(ks) returns ks, the same names in the same order; load() when
\* there is no file, as after clear(), returns the empty list; clear() leaves no file and,
\* when there is none, changes nothing and does not raise.
C30_SessionRoundTrip ==
    [][/\ SmLoad =>
            /\ \A ks \in KeyLists : stateFile = Saved[ks] => state' = AppState(JKeys(ks))
            /\ ~stateFile.exists => state' = AppState(JEmptyList)
       /\ SmClear =>
            /\ stateFile' = NoFile
            /\ last'.res # "raised"
            /\ ~stateFile.exists => stateFile' = stateFile]_vars

\* a record of two names, one with a quote and one with a backslash in it, was saved and
\* has been loaded
C30_Witness ==
    /\ last.op = "load"
    /\ stateFile = save(<<<<"a", "\"">>, <<"\\", "b">>>>)
    /\ state = AppState(JKeys(<<<<"a", "\"">>, <<"\\", "b">>>>))

\* thread t is blocked in acquire: the lock it asks for is held
Waiting(t) == OpOf(t).do = "acquire" /\ \E l \in OpOf(t).arg : owner[l] # "-"

\* C27: no thread holds the supervisor lock or the scheduler lock while it spawns a
\* process, reads a line, waits for a process, sleeps, joins or calls a callback; no
\* thread holds both locks; and a thread that waits for a lock waits for a thread that
\* is not itself waiting, so no set of threads waits for one another
C27_LocksOnlyAroundMapAccess ==
    /\ \A t \in LockThreads :
          OpOf(t).do \in Unlocked => \A l \in Locks : owner[l] # t
    /\ \A t \in LockThreads : ~(\A l \in Locks : owner[l] = t)
    /\ \A t \in LockThreads :
          Waiting(t) => \A l \in OpOf(t).arg : ~Waiting(owner[l])

\* the main thread is inside Popen while a reader holds the supervisor lock and the
\* polling thread, in its is_running check, waits for it
C27_Witness ==
    /\ OpOf("ui").do = "spawn"
    /\ owner["sup"] = "r1"
    /\ at["sched"].prog = "poll_loop"
    /\ Waiting("sched")

\* C25: an exception of the is-running check or of the trigger callback takes the
\* polling thread to the log callback; whatever the log callback does, the thread then
\* sleeps and is alive; and while the scheduler runs, the pass after a failed one
\* begins, POLL_INTERVAL later
C25_PassSurvivesException ==
    /\ [][/\ pass'.errs # pass.errs => pass'.pc = "log"
          /\ (pass.pc = "log" /\ pass' # pass) => pass'.pc = "sleep"
          /\ pass'.pc # "exited"
          /\ (pass'.n # pass.n /\ pass.n > 0) =>
                (pass'.n = pass.n + 1 /\ pass'.now = pass.now + POLL_INTERVAL)]_vars
    /\ \A n \in 1..(MaxPasses - 1) :
          (pass.pc = "log" /\ pass.n = n /\ polling) ~> (pass.pc = "check" /\ pass.n = n + 1)

\* a second pass has failed, so one was made after a failed one, and this time the log
\* callback raised as well: the thread sleeps
C25_Witness ==
    /\ pass.errs >= 2
    /\ pass.pc = "sleep"
    /\ last.op = "on_log"
    /\ last.res = "raised"

\* key b is scheduled daily at 08:00, is never running, and its minute has gone by
BMinuteOver ==
    /\ pass.pc = "sleep"
    /\ pass.now >= 8 * 3600 + 60
    /\ \E i \in 1..Len(schedules) : schedules[i].key = "b"

\* C26: a key whose callbacks raise in every pass does not keep the other keys from
\* being triggered: once the minute of b's daily time is over, b's trigger callback has
\* been called, whatever the order of the keys in _schedules
C26_BadKeyHaltsNoOther ==
    (BMinuteOver /\ pass.errs = pass.n) => fired["b"].n >= 1

\* C23: at most one polling thread is alive, whatever start() and stop() calls are made
C23_OnePollingThread == ~(Alive(pass) /\ Alive(old))

\* C24: once stop() has returned, and until start() is called, no polling thread is
\* alive and no trigger callback is called
C24_StopMeansStopped ==
    [][(~polling /\ pc["ui"] = "idle") =>
          (~Alive(pass) /\ ~Alive(old) /\ fired' = fired)]_vars

\* C31: parse returns the OFF entry for every malformed input
C31_MalformedIsOff ==
    (ret # NoRet /\ arg \in MalformedCases) => ret = ScheduleEntry

\* C32: interval|N, with m, h or no unit in either letter case, parses to an INTERVAL
\* entry of N * 60 seconds, or N * 3600 for h
C32_IntervalSeconds ==
    (ret # NoRet /\ arg \in IntervalCases) =>
       ret = [ScheduleEntry EXCEPT
                 !.schedule_type = "INTERVAL",
                 !.interval_seconds = arg.n * (IF arg.unit \in {<<"h">>, <<"H">>} THEN 3600
                                               ELSE 60)]

\* 45m, 2H and a bare 10 have been parsed
C32_Witness ==
    /\ ret # NoRet
    /\ arg \in IntervalCases
    /\ \/ arg.n = 45 /\ arg.unit = <<"m">> /\ ret.interval_seconds = 2700
       \/ arg.n = 2 /\ arg.unit = <<"H">> /\ ret.interval_seconds = 7200
       \/ arg.n = 10 /\ arg.unit = <<>> /\ ret.interval_seconds = 600

\* the days of a list: the indices of its recognised tokens
DaysOf(list) == {TokenDay[list[i]] : i \in 1..Len(list)} \ {NoDay}

\* C33: weekdays|HH:MM|list parses to a WEEKDAYS entry with time (HH, MM) and with the
\* indices of the recognised tokens of the list, each once, in ascending order
C33_WeekdaysList ==
    (ret # NoRet /\ arg \in WeekdayCases) =>
       /\ ret.schedule_type = "WEEKDAYS"
       /\ ret.time_of_day = arg.time
       /\ ret.interval_seconds = 0
       /\ {ret.weekdays[i] : i \in 1..Len(ret.weekdays)} = DaysOf(arg.list)
       /\ \A i \in 1..(Len(ret.weekdays) - 1) : ret.weekdays[i] < ret.weekdays[i + 1]

\* mon,mon,xyz,FRI has been parsed to (0, 4)
C33_Witness ==
    /\ arg \in WeekdayCases
    /\ arg.list = <<<<"m", "o", "n">>, <<"m", "o", "n">>, <<"x", "y", "z">>, <<"F", "R", "I">>>>
    /\ ret # NoRet
    /\ ret.weekdays = <<0, 4>>

\* C34: an entry whose OS process has exited eventually leaves Running, whatever the
\* output callback did while lines were streamed
C34_ExitedLeavesRunning ==
    \A i \in 1..MaxInst :
       (i \in InstIds /\ ~insts[i].alive) ~> (i \in InstIds /\ insts[i].state # "Running")

\* the two halves of C35, apart: a Stopped entry's process is dead; no on_output call is made
\* for an instance whose entry is Stopped
StoppedMeansDead == \A i \in InstIds : insts[i].state = "Stopped" => ~insts[i].alive
NoOutputAfterStopped == last.op = "on_output" => insts[last.inst].state # "Stopped"

\* C35: an entry is Stopped only when its OS process is dead and its reader has left the read
\* loop: no entry is Stopped while its process is alive, and on_output is never called for an
\* instance whose entry is already Stopped
C35_StoppedIsDeadAndDrained == StoppedMeansDead /\ NoOutputAfterStopped

\* who changes the state of instance i in a step: stop_script's first section (a thread enters
\* stop_script's body for i), stop_script's last section (a thread leaves "stop_final" for i),
\* the reader of i (it passes from proc.wait() to on_exit)
ByStopFirst(i) ==
    \E t \in Threads : /\ pc[t] \notin {"stop_wait", "stop_wait2", "stop_final"}
                       /\ pc'[t] \in {"stop_wait", "stop_final"}
                       /\ loc'[t].rp = i
ByStopLast(i) ==
    \E t \in Threads : pc[t] = "stop_final" /\ loc[t].rp = i /\ pc'[t] # "stop_final"
ByReader(i) == insts[i].reader = "wait" /\ insts'[i].reader = "exit"

StateStep(i) ==
    \/ insts'[i].state = insts[i].state
    \/ insts[i].state = "Running" /\ insts'[i].state = "Stopping" /\ ByStopFirst(i)
    \/ insts[i].state = "Stopping" /\ insts'[i].state = "Stopped" /\ ByStopLast(i)
    \/ insts[i].state = "Running" /\ insts'[i].state = "Stopped" /\ ByReader(i)

\* C36: an instance's state changes only Running -> Stopping (stop_script), Stopping -> Stopped
\* (stop_script) and Running -> Stopped (its reader); an instance enters the map Running, never
\* returns to Running, never leaves Stopped, and has no state other than these three
C36_StateMachine ==
    [][ /\ Len(insts') >= Len(insts)
        /\ \A i \in 1..Len(insts') :
              /\ insts'[i].state \in {"Running", "Stopping", "Stopped"}
              /\ i \in InstIds => StateStep(i)
              /\ i \notin InstIds => insts'[i].state = "Running" ]_vars

\* one instance was stopped by stop_script, which has just written Stopped, the other was
\* marked Stopped by its reader without any stop
C36_Witness ==
    /\ Len(insts) = 2
    /\ last.op = "stop" /\ last.res = "stopped"
    /\ insts[last.inst].state = "Stopped"
    /\ \E j \in InstIds : /\ j # last.inst
                          /\ insts[j].state = "Stopped"
                          /\ insts[j].reader \in {"exit", "done"}

\* the step in which the main thread runs _on_exit up to stop_all's snapshot
ExitStep == pc["ui"] = "idle" /\ pc'["ui"] = "all_next"

\* the keys whose entry is Running, and the lists that name each of them once
RunningNow == {k \in Keys : is_running(k)}
Listings(S) ==
    {ks \in [1..Cardinality(S) -> S] : \A i, j \in 1..Cardinality(S) : ks[i] = ks[j] => i = j}

\* C37: _on_exit writes the session record if and only if some key is Running; the record
\* holds exactly the keys that are Running at that moment, taken before the scheduler is
\* stopped and before stop_all stops anything; with nothing running the file is left alone;
\* nothing else writes the record
C37_ExitSavesRunningKeys ==
    [][ /\ ExitStep =>
             /\ UNCHANGED <<processes, insts>>
             /\ RunningNow = {} => stateFile' = stateFile
             /\ RunningNow # {} =>
                   /\ stateFile'.exists
                   /\ \E ks \in Listings(RunningNow) :
                         load(stateFile') = AppState(JKeys([i \in DOMAIN ks |-> name_of(ks[i])]))
        /\ (stateFile'.exists /\ stateFile' # stateFile) => ExitStep ]_vars

\* the exit was asked while the second instance of "a" was Running, the first having been
\* stopped: the record names "a", the scheduler's flag is down and the shutdown has not
\* stopped anything yet
C37_Witness ==
    /\ pc["ui"] = "all_next"
    /\ allKeys = <<"a">>
    /\ processes["a"] = 2
    /\ insts[2].state = "Running"
    /\ insts[1].state = "Stopped"
    /\ stateFile = save(<<name_of("a")>>)
    /\ ~polling

\* C38: whatever the interleaving of the polling pass with update_schedule, remove_schedule
\* and load_all, every key with a last-fired time has a schedule entry
C38_HistoryOnlyForScheduled ==
    \A k \in Keys : last_fired[k] # Never => HasSchedule(k)

\* nothing is on its way to the main loop: the queue of callbacks is empty, the main thread
\* is in no handler, and no reader stands between its state update and its on_exit
Settled ==
    /\ afterQueue = <<>>
    /\ pc["ui"] = "idle"
    /\ \A i \in InstIds : insts[i].reader # "exit"

\* C39: whenever every event queued by a background thread has been processed, the row of a
\* key shows running exactly when is_running(key); the exit notification of an earlier
\* instance does not mark a running later instance as not running
C39_RowShowsIsRunning ==
    Settled => \A k \in scripts : shown[k] <=> is_running(k)

\* the worker thread has ended
WorkerEnded == job.pc \in {"done", "died"}

\* C40: every call of the install worker calls on_complete exactly once, after all its calls
\* of on_output, with True when pip returned 0 and False on every other path
C40_CompleteExactlyOnce ==
    WorkerEnded =>
        /\ job.dones = 1
        /\ ~job.late
        /\ job.result = IF job.path = "rc_zero" THEN "True" ELSE "False"

====
